---- MODULE Spec2Model ----
(***************************************************************************)
(* Metro Runner: the gameplay simulation of Game.h, GameWorld.h, Player.h  *)
(* and InputManager.h as a state machine.                                  *)
(*                                                                         *)
(* Numbers.  The program computes in float.  The model computes in exact   *)
(* fixed point: lengths, positions and velocities are in tenths of a pixel *)
(* (so 3.0 is 30, 0.5 is 5 and the 1.8 dash factor is 18/10), times are in *)
(* milliseconds.  Every constant of the code is a multiple of these units. *)
(***************************************************************************)
EXTENDS Integers, Sequences, FiniteSets, TLC

VARIABLES
    state,              \* Game::state
    selectedChar,       \* Game::selectedChar
    player,             \* Game::player, a Player record
    world,              \* Game::gameWorld, a GameWorld record
    input,              \* the debounce flags of Game::inputManager
    data,               \* the record of Game::scoreManager
    pc,                 \* the next call of Game::run's loop body
    op,                 \* history: the operation that produced this state
    recycleLog,         \* history: the recyclings of the last updateMetros
    sinceActivation,    \* history: delta-time accumulated since the last activation
    ret,                \* history: the last query call and its result
    frames,             \* history: number of PLAYING updates explored so far
    runTime,            \* history: delta-time accumulated by the updates since init()
    lastDeltaTime,      \* history: delta-time of the update that produced this state
    prevSpace,          \* history: the space key was down in the latest handleInput
    handledHere,        \* history: handleInput has already run in the current session state
    walkedOff,          \* history: a grounded player walked into a gap, no jump key since
    ledger,             \* history: the record as loaded and the tallies of the finished runs
    mono                \* the program of main.cpp, run on the same inputs (Both* steps)

vars == <<state, selectedChar, player, world, input, data, pc, op, recycleLog,
          sinceActivation, ret, frames, runTime, lastDeltaTime,
          prevSpace, handledHere, walkedOff, ledger, mono>>

(***************************************************************************)
(* Program constants (tenths of a pixel, milliseconds).                    *)
(***************************************************************************)
SCREEN_WIDTH == 12000
metroY == 5000
metroGap == 800
MetroWidth == 3500
FirstMetroWidth == 6000
MetroCount == 8
RecycleEdge == -500
MaxXFloor == -10000
InitialSpeed == 30
SpeedStep == 5
SpeedPeriod == 10000
ObstaclePeriod == 2000
CoinPeriod == 1500
CoinSize == 200
ObstacleWidth == 400
ObstacleSpawnOffset == 500
CoinSpawnOffset == 300
FallMargin == 500
GroundSlack == 50
JumpVelocity == -120
Gravity == 5
FallVelocity == 10
AbilityCooldown == 8000
DashFactor == 18
UnitFactor == 10
PlayerX == 2000
PlayerY == 4000
PlayerWidth == 400
PlayerHeight == 800

\* Durations of the four abilities, by headIndex (Player::activateAbility).
AbilityDuration(h) ==
    CASE h = 0 -> 5000
      [] h = 1 -> 8000
      [] h = 2 -> 6000
      [] h = 3 -> 5000
      [] OTHER -> 0

(***************************************************************************)
(* Player (Player.h)                                                       *)
(***************************************************************************)
\* Player::Player()
NewPlayer ==
    [x |-> PlayerX, y |-> PlayerY, velocityY |-> 0,
     width |-> PlayerWidth, height |-> PlayerHeight,
     isJumping |-> FALSE, isDucking |-> FALSE, headIndex |-> 0,
     abilityActive |-> FALSE, abilityTimer |-> 0, abilityCooldown |-> 0,
     canDoubleJump |-> FALSE, hasDoubleJumped |-> FALSE]

\* Mutants of Player::jump.
JumpNoDoubleFlag(p) ==
    IF ~p.isJumping
    THEN [p EXCEPT !.velocityY = JumpVelocity, !.isJumping = TRUE,
                   !.hasDoubleJumped = FALSE]
    ELSE IF p.headIndex = 1 /\ p.isJumping /\ p.abilityActive
    THEN [p EXCEPT !.velocityY = JumpVelocity, !.hasDoubleJumped = TRUE]
    ELSE p

JumpNoAbilityCheck(p) ==
    IF ~p.isJumping
    THEN [p EXCEPT !.velocityY = JumpVelocity, !.isJumping = TRUE,
                   !.hasDoubleJumped = FALSE]
    ELSE IF p.headIndex = 1 /\ p.isJumping /\ ~p.hasDoubleJumped
    THEN [p EXCEPT !.velocityY = JumpVelocity, !.hasDoubleJumped = TRUE]
    ELSE p

\* Player::jump
Jump(p) ==
    IF ~p.isJumping
    THEN [p EXCEPT !.velocityY = JumpVelocity, !.isJumping = TRUE,
                   !.hasDoubleJumped = FALSE]
    ELSE IF p.headIndex = 1 /\ p.isJumping /\ ~p.hasDoubleJumped /\ p.abilityActive
    THEN [p EXCEPT !.velocityY = JumpVelocity, !.hasDoubleJumped = TRUE]
    ELSE p

\* Mutants of Player::activateAbility.
ActivateAbilityNoGuard(p) ==
    [p EXCEPT !.abilityActive = TRUE,
              !.abilityTimer = IF p.headIndex \in 0..3
                               THEN AbilityDuration(p.headIndex) ELSE @,
              !.canDoubleJump = IF p.headIndex = 1 THEN TRUE ELSE @,
              !.abilityCooldown = AbilityCooldown]

ActivateAbilityOwnCooldown(p) ==
    IF p.abilityCooldown <= 0
    THEN [p EXCEPT !.abilityActive = TRUE,
                   !.abilityTimer = IF p.headIndex \in 0..3
                                    THEN AbilityDuration(p.headIndex) ELSE @,
                   !.canDoubleJump = IF p.headIndex = 1 THEN TRUE ELSE @,
                   !.abilityCooldown = IF p.headIndex \in 0..3
                                       THEN AbilityDuration(p.headIndex) ELSE @]
    ELSE p

\* Player::activateAbility
ActivateAbility(p) ==
    IF p.abilityCooldown <= 0
    THEN [p EXCEPT !.abilityActive = TRUE,
                   !.abilityTimer = IF p.headIndex \in 0..3
                                    THEN AbilityDuration(p.headIndex) ELSE @,
                   !.canDoubleJump = IF p.headIndex = 1 THEN TRUE ELSE @,
                   !.abilityCooldown = AbilityCooldown]
    ELSE p

\* Mutant of the timer half of Player::update: the ability ends one update early.
UpdateAbilityTimersExpireEarly(p, deltaTime) ==
    LET t  == IF p.abilityActive THEN p.abilityTimer - deltaTime ELSE p.abilityTimer
        ex == p.abilityActive /\ t <= deltaTime
    IN [p EXCEPT !.abilityTimer = t,
                 !.abilityActive = IF ex THEN FALSE ELSE @,
                 !.canDoubleJump = IF ex /\ p.headIndex = 1 THEN FALSE ELSE @,
                 !.abilityCooldown = IF @ > 0 THEN @ - deltaTime ELSE @]

\* Mutant of the timer half of Player::update: the ability ends only when its
\* timer is below 0.
UpdateAbilityTimersExpireStrict(p, deltaTime) ==
    LET t  == IF p.abilityActive THEN p.abilityTimer - deltaTime ELSE p.abilityTimer
        ex == p.abilityActive /\ t < 0
    IN [p EXCEPT !.abilityTimer = t,
                 !.abilityActive = IF ex THEN FALSE ELSE @,
                 !.canDoubleJump = IF ex /\ p.headIndex = 1 THEN FALSE ELSE @,
                 !.abilityCooldown = IF @ > 0 THEN @ - deltaTime ELSE @]

\* Player::update, first half: the ability timer and the cooldown.
UpdateAbilityTimers(p, deltaTime) ==
    LET t  == IF p.abilityActive THEN p.abilityTimer - deltaTime ELSE p.abilityTimer
        ex == p.abilityActive /\ t <= 0
    IN [p EXCEPT !.abilityTimer = t,
                 !.abilityActive = IF ex THEN FALSE ELSE @,
                 !.canDoubleJump = IF ex /\ p.headIndex = 1 THEN FALSE ELSE @,
                 !.abilityCooldown = IF @ > 0 THEN @ - deltaTime ELSE @]

\* Player::update, second half: vertical integration and landing.
UpdatePhysics(p, groundY) ==
    LET y1 == p.y + p.velocityY
    IN IF p.isJumping
       THEN IF y1 >= groundY
            THEN [p EXCEPT !.y = groundY, !.velocityY = 0, !.isJumping = FALSE]
            ELSE [p EXCEPT !.y = y1, !.velocityY = @ + Gravity]
       ELSE IF y1 > groundY
            THEN [p EXCEPT !.y = groundY, !.velocityY = 0]
            ELSE [p EXCEPT !.y = y1]

\* Player::update
PlayerUpdate(p, groundY, deltaTime) ==
    UpdatePhysics(UpdateAbilityTimers(p, deltaTime), groundY)

\* Player::getSpeedMultiplier (in tenths)
GetSpeedMultiplier(p) == UnitFactor

\* Mutants of the capability queries: each forgets half of its condition.
HasDoubleCoinBonusAlways(p) == p.headIndex = 2

GetPlayerSpeedMultiplierAnyHead(p) ==
    IF p.abilityActive THEN DashFactor ELSE UnitFactor

\* Player::isInvincible
IsInvincible(p) == p.headIndex = 0 /\ p.abilityActive

\* Player::hasDoubleCoinBonus
HasDoubleCoinBonus(p) == p.headIndex = 2 /\ p.abilityActive

\* Player::getPlayerSpeedMultiplier (in tenths)
GetPlayerSpeedMultiplier(p) ==
    IF p.headIndex = 3 /\ p.abilityActive THEN DashFactor ELSE UnitFactor

(***************************************************************************)
(* GameWorld (GameWorld.h)                                                 *)
(***************************************************************************)
Metro(x, w) == [x |-> x, width |-> w]
Obstacle(x, y, w, h, flying) ==
    [x |-> x, y |-> y, width |-> w, height |-> h, isFlying |-> flying]
Coin(x, y) == [x |-> x, y |-> y, size |-> CoinSize]

\* GameWorld::init, the platform layout.
InitialMetros ==
    [i \in 1..MetroCount |->
        IF i = 1 THEN Metro(0, FirstMetroWidth)
        ELSE Metro(FirstMetroWidth + (i - 2) * (MetroWidth + metroGap), MetroWidth)]

\* GameWorld::getGroundY
GetGroundY(p) == metroY - p.height

\* Mutant of the effective speed: the dash factor is left out.
EffectiveSpeedNoDash(speed, p) == (speed * GetSpeedMultiplier(p)) \div UnitFactor

\* effectiveSpeed of updateMetros / updateObstacles / updateCoins (tenths of a pixel)
EffectiveSpeed(speed, p) ==
    (speed * GetSpeedMultiplier(p) * GetPlayerSpeedMultiplier(p)) \div (UnitFactor * UnitFactor)

\* The inner loop of updateMetros: the largest x, starting from -1000.
RECURSIVE MaxXLoop(_, _, _)
MaxXLoop(ms, j, maxX) ==
    IF j > Len(ms) THEN maxX
    ELSE MaxXLoop(ms, j + 1, IF ms[j].x > maxX THEN ms[j].x ELSE maxX)

\* Mutant of RecycleX: places the platform after its own old position.
RecycleXInPlace(ms, i) == ms[i].x + MetroWidth + metroGap

\* updateMetros, the position a recycled platform gets.
RecycleX(ms, i) == MaxXLoop(ms, 1, MaxXFloor) + MetroWidth + metroGap

\* Mutant of UpdateMetrosLoop: a recycled platform is erased instead of moved.
RECURSIVE UpdateMetrosLoopErase(_, _, _, _)
UpdateMetrosLoopErase(ms, i, eff, log) ==
    IF i > Len(ms) THEN [metros |-> ms, log |-> log]
    ELSE LET moved == [ms EXCEPT ![i].x = @ - eff]
         IN IF moved[i].x + moved[i].width < RecycleEdge
            THEN UpdateMetrosLoopErase(
                     SubSeq(moved, 1, i - 1) \o SubSeq(moved, i + 1, Len(moved)),
                     i, eff, log)
            ELSE UpdateMetrosLoopErase(moved, i + 1, eff, log)

\* updateMetros, the loop over the platforms, in list order and in place.
\* log records, for every recycling, the list as the code sees it at that
\* moment and the position the platform gets.
RECURSIVE UpdateMetrosLoop(_, _, _, _)
UpdateMetrosLoop(ms, i, eff, log) ==
    IF i > Len(ms) THEN [metros |-> ms, log |-> log]
    ELSE LET moved == [ms EXCEPT ![i].x = @ - eff]
         IN IF moved[i].x + moved[i].width < RecycleEdge
            THEN LET nx == RecycleX(moved, i)
                 IN UpdateMetrosLoop([moved EXCEPT ![i].x = nx], i + 1, eff,
                        Append(log, [index |-> i, seen |-> moved, newX |-> nx]))
            ELSE UpdateMetrosLoop(moved, i + 1, eff, log)

\* GameWorld::updateMetros
UpdateMetros(ms, speed, p) == UpdateMetrosLoop(ms, 1, EffectiveSpeed(speed, p), <<>>)

\* Mutant of updateObstacles: an obstacle is erased as soon as its right edge is at 0.
UpdateObstaclesEraseAtEdge(obs, timer, deltaTime, p, speed, flying) ==
    LET t1      == timer + deltaTime
        spawn   == t1 > ObstaclePeriod
        obsY    == IF flying THEN metroY - 1800 ELSE metroY - 600
        obsH    == IF flying THEN 300 ELSE 600
        withNew == IF spawn
                   THEN Append(obs, Obstacle(SCREEN_WIDTH + ObstacleSpawnOffset,
                                             obsY, ObstacleWidth, obsH, flying))
                   ELSE obs
        eff     == EffectiveSpeed(speed, p)
        moved   == [k \in 1..Len(withNew) |-> [withNew[k] EXCEPT !.x = @ - eff]]
        Stays(o) == ~(o.x + o.width <= 0)
    IN [obstacles |-> SelectSeq(moved, Stays),
        obstacleTimer |-> IF spawn THEN 0 ELSE t1]

\* GameWorld::updateObstacles; flying is the outcome of rand() % 2 == 0.
UpdateObstacles(obs, timer, deltaTime, p, speed, flying) ==
    LET t1      == timer + deltaTime
        spawn   == t1 > ObstaclePeriod
        obsY    == IF flying THEN metroY - 1800 ELSE metroY - 600
        obsH    == IF flying THEN 300 ELSE 600
        withNew == IF spawn
                   THEN Append(obs, Obstacle(SCREEN_WIDTH + ObstacleSpawnOffset,
                                             obsY, ObstacleWidth, obsH, flying))
                   ELSE obs
        eff     == EffectiveSpeed(speed, p)
        moved   == [k \in 1..Len(withNew) |-> [withNew[k] EXCEPT !.x = @ - eff]]
        Stays(o) == ~(o.x + o.width < 0)
    IN [obstacles |-> SelectSeq(moved, Stays),
        obstacleTimer |-> IF spawn THEN 0 ELSE t1]

\* Mutant of the overlap test of updateCoins: touching edges count.
CoinHitInclusive(p, c) ==
    /\ p.x <= c.x + c.size
    /\ p.x + p.width >= c.x
    /\ p.y <= c.y + c.size
    /\ p.y + p.height >= c.y

\* The overlap test of updateCoins.
CoinHit(p, c) ==
    /\ p.x < c.x + c.size
    /\ p.x + p.width > c.x
    /\ p.y < c.y + c.size
    /\ p.y + p.height > c.y

\* Mutant of updateCoins: a coin is spawned as soon as the timer reaches 1.5 s.
UpdateCoinsSpawnAtPeriod(cs, timer, tally, deltaTime, p, speed, r) ==
    LET t1      == timer + deltaTime
        spawn   == t1 >= CoinPeriod
        withNew == IF spawn
                   THEN Append(cs, Coin(SCREEN_WIDTH + CoinSpawnOffset,
                                        metroY - 1500 - r * UnitFactor))
                   ELSE cs
        eff     == EffectiveSpeed(speed, p)
        moved   == [k \in 1..Len(withNew) |-> [withNew[k] EXCEPT !.x = @ - eff]]
        hits    == {k \in 1..Len(moved) : CoinHit(p, moved[k])}
        value   == IF HasDoubleCoinBonus(p) THEN 2 ELSE 1
        Stays(c) == ~(c.x + c.size < 0 \/ CoinHit(p, c))
    IN [coins |-> SelectSeq(moved, Stays),
        coinTimer |-> IF spawn THEN 0 ELSE t1,
        coinsCollected |-> tally + value * Cardinality(hits)]

\* GameWorld::updateCoins; r is the outcome of rand() % 100.
UpdateCoins(cs, timer, tally, deltaTime, p, speed, r) ==
    LET t1      == timer + deltaTime
        spawn   == t1 > CoinPeriod
        withNew == IF spawn
                   THEN Append(cs, Coin(SCREEN_WIDTH + CoinSpawnOffset,
                                        metroY - 1500 - r * UnitFactor))
                   ELSE cs
        eff     == EffectiveSpeed(speed, p)
        moved   == [k \in 1..Len(withNew) |-> [withNew[k] EXCEPT !.x = @ - eff]]
        hits    == {k \in 1..Len(moved) : CoinHit(p, moved[k])}
        value   == IF HasDoubleCoinBonus(p) THEN 2 ELSE 1
        Stays(c) == ~(c.x + c.size < 0 \/ CoinHit(p, c))
    IN [coins |-> SelectSeq(moved, Stays),
        coinTimer |-> IF spawn THEN 0 ELSE t1,
        coinsCollected |-> tally + value * Cardinality(hits)]

\* The player's horizontal center.
PlayerCenterX(p) == p.x + p.width \div 2

\* The span test of isPlayerOnPlatform and checkFallThrough.
OverMetro(p, m) == PlayerCenterX(p) > m.x /\ PlayerCenterX(p) < m.x + m.width

\* Mutant of IsPlayerOnPlatform: no 5 px slack above the ground.
IsPlayerOnPlatformNoSlack(ms, p) ==
    /\ p.y >= GetGroundY(p)
    /\ \E k \in 1..Len(ms) : OverMetro(p, ms[k])

\* GameWorld::isPlayerOnPlatform
IsPlayerOnPlatform(ms, p) ==
    /\ p.y >= GetGroundY(p) - GroundSlack
    /\ \E k \in 1..Len(ms) : OverMetro(p, ms[k])

\* The AABB test of checkObstacleCollision.
ObstacleHit(p, o) ==
    /\ p.x < o.x + o.width
    /\ p.x + p.width > o.x
    /\ p.y < o.y + o.height
    /\ p.y + p.height > o.y

\* Mutant of CheckObstacleCollision: the shield is ignored.
CheckObstacleCollisionNoShield(obs, p) ==
    \E k \in 1..Len(obs) : ObstacleHit(p, obs[k])

\* GameWorld::checkObstacleCollision
CheckObstacleCollision(obs, p) ==
    IF IsInvincible(p) THEN FALSE
    ELSE \E k \in 1..Len(obs) : ObstacleHit(p, obs[k])

\* Mutant of CheckFallThrough: the threshold is measured from the ground level.
CheckFallThroughFromGround(ms, p) ==
    IF \E k \in 1..Len(ms) : OverMetro(p, ms[k]) THEN FALSE
    ELSE p.y > GetGroundY(p) + FallMargin

\* Mutant of CheckFallThrough: the 50 px margin below the platform level is missing.
CheckFallThroughNoMargin(ms, p) ==
    IF \E k \in 1..Len(ms) : OverMetro(p, ms[k]) THEN FALSE
    ELSE p.y > metroY

\* GameWorld::checkFallThrough
CheckFallThrough(ms, p) ==
    IF \E k \in 1..Len(ms) : OverMetro(p, ms[k]) THEN FALSE
    ELSE p.y > metroY + FallMargin

\* GameWorld::init
WorldInit ==
    [metros |-> InitialMetros, obstacles |-> <<>>, coins |-> <<>>,
     gameSpeed |-> InitialSpeed, speedIncreaseTimer |-> 0, coinsCollected |-> 0,
     obstacleTimer |-> 0, coinTimer |-> 0]

\* Mutants of GameWorld::update: the ramp test is strict; the difficulty
\* timer is not restarted.
WorldUpdateRampStrict(w, deltaTime, p, flying, r) ==
    LET t1    == w.speedIncreaseTimer + deltaTime
        ramp  == t1 > SpeedPeriod
        speed == IF ramp THEN w.gameSpeed + SpeedStep ELSE w.gameSpeed
        um    == UpdateMetros(w.metros, speed, p)
        uo    == UpdateObstacles(w.obstacles, w.obstacleTimer, deltaTime, p, speed, flying)
        uc    == UpdateCoins(w.coins, w.coinTimer, w.coinsCollected, deltaTime, p, speed, r)
    IN [world |-> [metros |-> um.metros, obstacles |-> uo.obstacles, coins |-> uc.coins,
                   gameSpeed |-> speed,
                   speedIncreaseTimer |-> IF ramp THEN 0 ELSE t1,
                   coinsCollected |-> uc.coinsCollected,
                   obstacleTimer |-> uo.obstacleTimer, coinTimer |-> uc.coinTimer],
        log |-> um.log]

WorldUpdateNoTimerReset(w, deltaTime, p, flying, r) ==
    LET t1    == w.speedIncreaseTimer + deltaTime
        ramp  == t1 >= SpeedPeriod
        speed == IF ramp THEN w.gameSpeed + SpeedStep ELSE w.gameSpeed
        um    == UpdateMetros(w.metros, speed, p)
        uo    == UpdateObstacles(w.obstacles, w.obstacleTimer, deltaTime, p, speed, flying)
        uc    == UpdateCoins(w.coins, w.coinTimer, w.coinsCollected, deltaTime, p, speed, r)
    IN [world |-> [metros |-> um.metros, obstacles |-> uo.obstacles, coins |-> uc.coins,
                   gameSpeed |-> speed,
                   speedIncreaseTimer |-> t1,
                   coinsCollected |-> uc.coinsCollected,
                   obstacleTimer |-> uo.obstacleTimer, coinTimer |-> uc.coinTimer],
        log |-> um.log]

\* GameWorld::update; flying and r are the outcomes of the two rand() calls.
WorldUpdate(w, deltaTime, p, flying, r) ==
    LET t1    == w.speedIncreaseTimer + deltaTime
        ramp  == t1 >= SpeedPeriod
        speed == IF ramp THEN w.gameSpeed + SpeedStep ELSE w.gameSpeed
        um    == UpdateMetros(w.metros, speed, p)
        uo    == UpdateObstacles(w.obstacles, w.obstacleTimer, deltaTime, p, speed, flying)
        uc    == UpdateCoins(w.coins, w.coinTimer, w.coinsCollected, deltaTime, p, speed, r)
    IN [world |-> [metros |-> um.metros, obstacles |-> uo.obstacles, coins |-> uc.coins,
                   gameSpeed |-> speed,
                   speedIncreaseTimer |-> IF ramp THEN 0 ELSE t1,
                   coinsCollected |-> uc.coinsCollected,
                   obstacleTimer |-> uo.obstacleTimer, coinTimer |-> uc.coinTimer],
        log |-> um.log]

(***************************************************************************)
(* Game (Game.h) and InputManager (InputManager.h)                         *)
(***************************************************************************)
\* The keys the game reads.  W acts as UP.  ESC (closes the window) and M
\* (toggles the music) change nothing of the simulation and are left out.
Keys == {"SPACE", "LEFT", "RIGHT", "UP", "Q"}

\* InputManager::InputManager
NewInput ==
    [anyKeyPressed |-> FALSE, leftPressed |-> FALSE, rightPressed |-> FALSE,
     spacePressed |-> FALSE, qPressed |-> FALSE]

\* Mutant of the edge-triggered queries: level-triggered, the flag is ignored.
EdgePressedLevel(down, flag) == down

\* The edge-triggered queries (isLeftPressed, isRightPressed, isSpacePressed,
\* isAbilityPressed, isAnyKeyPressed): the result for a key that is down or up
\* and the flag the call leaves behind.
EdgePressed(down, flag) == down /\ ~flag
EdgeFlag(down, flag) == down

\* InputManager::isJumpPressed
IsJumpPressed(keys) == "UP" \in keys \/ "SPACE" \in keys

\* Mutant of the left step of the selection: no wrap-around below 0.
CycleLeftNoWrap(c) == c - 1

\* Game::handleInput, case CHARACTER_SELECT: the selection after a left and
\* after a right press.
CycleLeft(c) == (c - 1 + 4) % 4

CycleRight(c) == (c + 1) % 4

\* Mutant of Game::startGame: the player keeps the default head.
StartGameDefaultHead(sel) ==
    [player |-> [NewPlayer EXCEPT !.y = GetGroundY(NewPlayer)], world |-> WorldInit]

\* Game::startGame
StartGame(sel) ==
    LET p0 == [NewPlayer EXCEPT !.headIndex = sel]
    IN [player |-> [p0 EXCEPT !.y = GetGroundY(p0)], world |-> WorldInit]

\* Game::handleInput, case PLAYING: the player after the jump and ability keys.
PlayingInput(p, keys, qPressed) ==
    LET p1 == IF IsJumpPressed(keys) THEN Jump(p) ELSE p
    IN IF EdgePressed("Q" \in keys, qPressed) THEN ActivateAbility(p1) ELSE p1

\* Mutant of Game::updatePlayer: no gravity in the airborne branch.
UpdatePlayerNoGravity(ms, p, deltaTime) ==
    LET standingOnPlatform == IsPlayerOnPlatform(ms, p)
        groundY == GetGroundY(p)
    IN IF standingOnPlatform /\ ~p.isJumping
       THEN PlayerUpdate(p, groundY, deltaTime)
       ELSE LET p1 == IF ~p.isJumping /\ p.y >= groundY
                      THEN [p EXCEPT !.isJumping = TRUE, !.velocityY = FallVelocity]
                      ELSE p
                p2 == [p1 EXCEPT !.y = @ + p1.velocityY]
            IN IF p2.y >= groundY /\ standingOnPlatform
               THEN [p2 EXCEPT !.y = groundY, !.velocityY = 0, !.isJumping = FALSE,
                               !.hasDoubleJumped = FALSE]
               ELSE p2

\* Mutant of Game::updatePlayer: a landing keeps the vertical speed.
UpdatePlayerLandKeepsSpeed(ms, p, deltaTime) ==
    LET standingOnPlatform == IsPlayerOnPlatform(ms, p)
        groundY == GetGroundY(p)
    IN IF standingOnPlatform /\ ~p.isJumping
       THEN PlayerUpdate(p, groundY, deltaTime)
       ELSE LET p1 == IF ~p.isJumping /\ p.y >= groundY
                      THEN [p EXCEPT !.isJumping = TRUE, !.velocityY = FallVelocity]
                      ELSE p
                p2 == [p1 EXCEPT !.y = @ + p1.velocityY, !.velocityY = @ + Gravity]
            IN IF p2.y >= groundY /\ standingOnPlatform
               THEN [p2 EXCEPT !.y = groundY, !.isJumping = FALSE,
                               !.hasDoubleJumped = FALSE]
               ELSE p2

\* Mutant of Game::updatePlayer: the airborne branch lands wherever y reaches groundY.
UpdatePlayerLandAnywhere(ms, p, deltaTime) ==
    LET standingOnPlatform == IsPlayerOnPlatform(ms, p)
        groundY == GetGroundY(p)
    IN IF standingOnPlatform /\ ~p.isJumping
       THEN PlayerUpdate(p, groundY, deltaTime)
       ELSE LET p1 == IF ~p.isJumping /\ p.y >= groundY
                      THEN [p EXCEPT !.isJumping = TRUE, !.velocityY = FallVelocity]
                      ELSE p
                p2 == [p1 EXCEPT !.y = @ + p1.velocityY, !.velocityY = @ + Gravity]
            IN IF p2.y >= groundY
               THEN [p2 EXCEPT !.y = groundY, !.velocityY = 0, !.isJumping = FALSE,
                               !.hasDoubleJumped = FALSE]
               ELSE p2

\* Game::updatePlayer
UpdatePlayer(ms, p, deltaTime) ==
    LET standingOnPlatform == IsPlayerOnPlatform(ms, p)
        groundY == GetGroundY(p)
    IN IF standingOnPlatform /\ ~p.isJumping
       THEN PlayerUpdate(p, groundY, deltaTime)
       ELSE LET p1 == IF ~p.isJumping /\ p.y >= groundY
                      THEN [p EXCEPT !.isJumping = TRUE, !.velocityY = FallVelocity]
                      ELSE p
                p2 == [p1 EXCEPT !.y = @ + p1.velocityY, !.velocityY = @ + Gravity]
            IN IF p2.y >= groundY /\ standingOnPlatform
               THEN [p2 EXCEPT !.y = groundY, !.velocityY = 0, !.isJumping = FALSE,
                               !.hasDoubleJumped = FALSE]
               ELSE p2

\* Mutant of CheckCollisions: a fall does not end the run.
CheckCollisionsObstaclesOnly(w, p) == CheckObstacleCollision(w.obstacles, p)

\* Game::checkCollisions, its condition.
CheckCollisions(w, p) ==
    CheckObstacleCollision(w.obstacles, p) \/ CheckFallThrough(w.metros, p)

\* Game::update in state PLAYING: updatePlayer, gameWorld.update, checkCollisions.
PlayingUpdate(p, w, deltaTime, flying, r) ==
    LET p1 == UpdatePlayer(w.metros, p, deltaTime)
        wu == WorldUpdate(w, deltaTime, p1, flying, r)
    IN [player |-> p1, world |-> wu.world, log |-> wu.log,
        over |-> CheckCollisions(wu.world, p1)]

\* Mutant of Game::endGame: the best score is overwritten by the run's tally.
EndGameRecordOverwrite(d, c) ==
    [bestScore |-> c, totalCoins |-> d.totalCoins + c]

\* Mutant of Game::endGame: the coins are added only with a new best score.
EndGameRecordCoinsWithBest(d, c) ==
    IF c > d.bestScore
    THEN [bestScore |-> c, totalCoins |-> d.totalCoins + c]
    ELSE d

\* ScoreManager::updateBestScore followed by ScoreManager::addCoins (Game::endGame)
EndGameRecord(d, c) ==
    [bestScore |-> IF c > d.bestScore THEN c ELSE d.bestScore,
     totalCoins |-> d.totalCoins + c]

(***************************************************************************)
(* Bounds and inputs of the search                                         *)
(***************************************************************************)
\* PLAYING updates explored after the initial state.
MaxFrames == 4

\* The frame delta-times the search draws from: a 50 fps frame and a stall of
\* 5 s, which passes both spawn periods and the shortest ability, and half a
\* difficulty period.
DeltaTimes == {20, 5000}

\* The key states the search draws from (keys that are down during a frame).
KeySets == {{}, {"SPACE"}, {"LEFT"}, {"RIGHT"}, {"UP"}, {"Q"}, {"UP", "Q"}}

\* Outcomes of the two rand() calls of an update the search draws from:
\* rand() % 2 == 0 for the obstacle and rand() % 100 for the coin.
RandOutcomes == {[flying |-> TRUE, r |-> 0], [flying |-> FALSE, r |-> 99]}

\* GameData::GameData: the record of a session without a save file.
NoRecord == [bestScore |-> 0, totalCoins |-> 0]

\* Records a save file can hold when ScoreManager loads it.
LoadedRecords == {NoRecord, [bestScore |-> 5, totalCoins |-> 7]}

NoRet == [fn |-> "none", val |-> FALSE]

\* The value of mono while main.cpp's program is not run beside the game.
NoMono == [on |-> FALSE]

(***************************************************************************)
(* Runs replayed up to a frame.  A script is a character, a number of      *)
(* PLAYING frames, the frames in which the jump key is down, the frames in *)
(* which the ability key is down, the frame delta-time, and the outcomes   *)
(* of rand().  Replay plays the script with the operations of the game     *)
(* from Game::startGame on, so the state it returns is one the program     *)
(* reaches with these inputs.                                              *)
(***************************************************************************)
MaxOf(S) == CHOOSE m \in S : \A x \in S : m >= x

\* History of a fall: a grounded player has walked into a gap (the update
\* turned it airborne) and the jump key has not been down since.
WalkedOffAfterInput(w, keys) == w /\ ~IsJumpPressed(keys)
WalkedOffAfterUpdate(w, p, p1) == w \/ (~p.isJumping /\ p1.isJumping)

\* One frame of a script: handleInput in PLAYING, then update.
ReplayFrame(sc, f, g) ==
    LET keys == (IF f \in sc.jumps THEN {"UP"} ELSE {})
                \cup (IF f \in sc.abilities THEN {"Q"} ELSE {})
        p0   == PlayingInput(g.player, keys, FALSE)
        u    == PlayingUpdate(p0, g.world, sc.dt, sc.flying, sc.r)
    IN [player |-> u.player, world |-> u.world, log |-> u.log, over |-> u.over,
        fell |-> WalkedOffAfterUpdate(WalkedOffAfterInput(g.fell, keys), p0, u.player)]

\* Frames a..b of a script, in order, stopping when the run is over.
RECURSIVE Replay(_, _, _, _)
Replay(sc, a, b, g) ==
    IF g.over \/ a > b THEN g
    ELSE IF a = b THEN ReplayFrame(sc, a, g)
    ELSE LET mid == (a + b) \div 2
         IN Replay(sc, mid + 1, b, Replay(sc, a, mid, g))

Replayed(sc) ==
    LET s0 == StartGame(sc.char)
    IN Replay(sc, 1, sc.n, [player |-> s0.player, world |-> s0.world,
                            log |-> <<>>, over |-> FALSE, fell |-> FALSE])

\* The scripts: just before the first recycling (frame 217); falling into the
\* first gap, just before the fall ends the run; after a jump over the first
\* gap, just before the second recycling; after two jumps, just before the
\* first obstacle reaches the player; in the second jump, just before the
\* first coin reaches the player; at the end of the first jump, just before
\* the landing; dashing, fallen into the first gap, just before the second
\* platform arrives.  Each script names the record ScoreManager loaded at
\* startup.
Scripts ==
    { [char |-> 3, n |-> 214, jumps |-> {}, abilities |-> {}, dt |-> 20,
        flying |-> FALSE, r |-> 0, record |-> NoRecord],
      [char |-> 1, n |-> 262, jumps |-> {}, abilities |-> {}, dt |-> 20,
        flying |-> FALSE, r |-> 0, record |-> NoRecord],
      [char |-> 2, n |-> 331, jumps |-> {235}, abilities |-> {}, dt |-> 20,
        flying |-> TRUE, r |-> 0, record |-> NoRecord],
      [char |-> 0, n |-> 434, jumps |-> {235, 380}, abilities |-> {}, dt |-> 20,
        flying |-> FALSE, r |-> 0, record |-> NoRecord],
      [char |-> 2, n |-> 403, jumps |-> {235, 380}, abilities |-> {}, dt |-> 20,
        flying |-> FALSE, r |-> 0, record |-> NoRecord],
      [char |-> 1, n |-> 282, jumps |-> {235}, abilities |-> {}, dt |-> 20,
        flying |-> FALSE, r |-> 0, record |-> NoRecord],
      [char |-> 0, n |-> 434, jumps |-> {235, 380}, abilities |-> {}, dt |-> 20,
        flying |-> FALSE, r |-> 0, record |-> [bestScore |-> 5, totalCoins |-> 7]],
      [char |-> 3, n |-> 255, jumps |-> {}, abilities |-> {240}, dt |-> 20,
        flying |-> FALSE, r |-> 0, record |-> NoRecord] }

(***************************************************************************)
(* The game: Game::run calls handleInput and update in turn.               *)
(***************************************************************************)
\* Game::Game and Game::init
GameConstructed ==
    /\ state = "START_SCREEN"
    /\ selectedChar = 0
    /\ player = [NewPlayer EXCEPT !.y = GetGroundY(NewPlayer)]
    /\ world = WorldInit
    /\ input = NewInput
    /\ data \in LoadedRecords
    /\ pc = "handleInput"
    /\ op = "init"
    /\ recycleLog = <<>>
    /\ sinceActivation = -1
    /\ ret = NoRet
    /\ frames = 0
    /\ runTime = 0
    /\ lastDeltaTime = 0
    /\ prevSpace = FALSE
    /\ handledHere = FALSE
    /\ walkedOff = FALSE
    /\ ledger = [loaded |-> data, tallies |-> <<>>]

\* The game on its own: main.cpp's program is not run beside it.
InitConstructed == GameConstructed /\ mono = NoMono

\* The game after the menus (any key, the choice of sc.char, space) and the
\* frames of a script.
GameFromScript(sc) ==
        LET g == Replayed(sc)
        IN /\ ~g.over
           /\ state = "PLAYING"
           /\ selectedChar = sc.char
           /\ player = g.player
           /\ world = g.world
           /\ input = [NewInput EXCEPT !.anyKeyPressed = TRUE, !.spacePressed = TRUE]
           /\ data = sc.record
           /\ pc = "handleInput"
           /\ op = "update"
           /\ recycleLog = g.log
           /\ sinceActivation = IF sc.abilities = {} THEN -1
                                ELSE (sc.n + 1 - MaxOf(sc.abilities)) * sc.dt
           /\ ret = NoRet
           /\ frames = 0
           /\ runTime = sc.n * sc.dt
           /\ lastDeltaTime = sc.dt
           /\ prevSpace = FALSE
           /\ handledHere = TRUE
           /\ walkedOff = g.fell
           /\ ledger = [loaded |-> sc.record, tallies |-> <<>>]

InitFromScript(sc) == GameFromScript(sc) /\ mono = NoMono

InitReplayed == \E sc \in Scripts : InitFromScript(sc)

Init == InitConstructed \/ InitReplayed

\* Mutant of the START_SCREEN case: the right key also moves the selection.
HandleInputStartCycles(keys) ==
    /\ pc = "handleInput" /\ state = "START_SCREEN"
    /\ state' = IF EdgePressed(keys # {}, input.anyKeyPressed)
                THEN "CHARACTER_SELECT" ELSE state
    /\ selectedChar' = IF "RIGHT" \in keys THEN CycleRight(selectedChar)
                       ELSE selectedChar
    /\ input' = [input EXCEPT !.anyKeyPressed = EdgeFlag(keys # {}, @)]
    /\ pc' = "update" /\ op' = "handleInput"
    /\ UNCHANGED <<player, world, data, recycleLog, sinceActivation,
                   ret, frames>>
    /\ lastDeltaTime' = 0
    /\ prevSpace' = ("SPACE" \in keys)
    /\ handledHere' = (state' = state)
    /\ UNCHANGED <<walkedOff, ledger, mono>>
    /\ UNCHANGED runTime

\* Game::handleInput, case START_SCREEN
HandleInputStart(keys) ==
    /\ pc = "handleInput" /\ state = "START_SCREEN"
    /\ state' = IF EdgePressed(keys # {}, input.anyKeyPressed)
                THEN "CHARACTER_SELECT" ELSE state
    /\ input' = [input EXCEPT !.anyKeyPressed = EdgeFlag(keys # {}, @)]
    /\ pc' = "update" /\ op' = "handleInput"
    /\ UNCHANGED <<selectedChar, player, world, data, recycleLog, sinceActivation,
                   ret, frames>>
    /\ lastDeltaTime' = 0
    /\ prevSpace' = ("SPACE" \in keys)
    /\ handledHere' = (state' = state)
    /\ UNCHANGED <<walkedOff, ledger, mono>>
    /\ UNCHANGED runTime

\* Game::handleInput, case CHARACTER_SELECT
HandleInputSelect(keys) ==
    /\ pc = "handleInput" /\ state = "CHARACTER_SELECT"
    /\ LET c1 == IF EdgePressed("LEFT" \in keys, input.leftPressed)
                 THEN CycleLeft(selectedChar) ELSE selectedChar
           c2 == IF EdgePressed("RIGHT" \in keys, input.rightPressed)
                 THEN CycleRight(c1) ELSE c1
           go == EdgePressed("SPACE" \in keys, input.spacePressed)
       IN /\ selectedChar' = c2
          /\ player' = IF go THEN StartGame(c2).player ELSE player
          /\ world' = IF go THEN StartGame(c2).world ELSE world
          /\ state' = IF go THEN "PLAYING" ELSE state
          /\ sinceActivation' = IF go THEN -1 ELSE sinceActivation
    /\ input' = [input EXCEPT !.leftPressed = EdgeFlag("LEFT" \in keys, @),
                              !.rightPressed = EdgeFlag("RIGHT" \in keys, @),
                              !.spacePressed = EdgeFlag("SPACE" \in keys, @)]
    /\ pc' = "update" /\ op' = "handleInput"
    /\ UNCHANGED <<data, recycleLog, ret, frames>>
    /\ lastDeltaTime' = 0
    /\ prevSpace' = ("SPACE" \in keys)
    /\ handledHere' = (state' = state)
    /\ walkedOff' = IF EdgePressed("SPACE" \in keys, input.spacePressed)
                    THEN FALSE ELSE walkedOff
    /\ UNCHANGED <<ledger, mono>>
    /\ runTime' = IF EdgePressed("SPACE" \in keys, input.spacePressed) THEN 0 ELSE runTime

\* Game::handleInput, case PLAYING
HandleInputPlaying(keys) ==
    /\ pc = "handleInput" /\ state = "PLAYING"
    /\ player' = PlayingInput(player, keys, input.qPressed)
    /\ input' = [input EXCEPT !.qPressed = EdgeFlag("Q" \in keys, @)]
    /\ sinceActivation' = IF EdgePressed("Q" \in keys, input.qPressed)
                             /\ player.abilityCooldown <= 0
                          THEN 0 ELSE sinceActivation
    /\ pc' = "update" /\ op' = "handleInput"
    /\ UNCHANGED <<state, selectedChar, world, data, recycleLog, ret, frames>>
    /\ lastDeltaTime' = 0
    /\ prevSpace' = ("SPACE" \in keys)
    /\ handledHere' = (state' = state)
    /\ walkedOff' = WalkedOffAfterInput(walkedOff, keys)
    /\ UNCHANGED <<ledger, mono>>
    /\ UNCHANGED runTime

\* Mutant of the GAME_OVER case: the restart goes back to the start screen.
HandleInputGameOverToStart(keys) ==
    /\ pc = "handleInput" /\ state = "GAME_OVER"
    /\ state' = IF EdgePressed("SPACE" \in keys, input.spacePressed)
                THEN "START_SCREEN" ELSE state
    /\ input' = [input EXCEPT !.spacePressed = EdgeFlag("SPACE" \in keys, @)]
    /\ pc' = "update" /\ op' = "handleInput"
    /\ UNCHANGED <<selectedChar, player, world, data, recycleLog, sinceActivation,
                   ret, frames>>
    /\ lastDeltaTime' = 0
    /\ prevSpace' = ("SPACE" \in keys)
    /\ handledHere' = (state' = state)
    /\ UNCHANGED <<walkedOff, ledger, mono>>
    /\ UNCHANGED runTime

\* Game::handleInput, case GAME_OVER
HandleInputGameOver(keys) ==
    /\ pc = "handleInput" /\ state = "GAME_OVER"
    /\ state' = IF EdgePressed("SPACE" \in keys, input.spacePressed)
                THEN "CHARACTER_SELECT" ELSE state
    /\ input' = [input EXCEPT !.spacePressed = EdgeFlag("SPACE" \in keys, @)]
    /\ pc' = "update" /\ op' = "handleInput"
    /\ UNCHANGED <<selectedChar, player, world, data, recycleLog, sinceActivation,
                   ret, frames>>
    /\ lastDeltaTime' = 0
    /\ prevSpace' = ("SPACE" \in keys)
    /\ handledHere' = (state' = state)
    /\ UNCHANGED <<walkedOff, ledger, mono>>
    /\ UNCHANGED runTime

\* Mutant of the early return: the world's timers run in every state.
UpdateIdleTicking ==
    /\ pc = "update" /\ state # "PLAYING"
    /\ pc' = "handleInput" /\ op' = "update"
    /\ world' = [world EXCEPT !.obstacleTimer = IF @ < ObstaclePeriod THEN @ + 20 ELSE @]
    /\ UNCHANGED <<state, selectedChar, player, input, data, recycleLog,
                   sinceActivation, ret, frames, runTime>>
    /\ lastDeltaTime' = 0
    /\ UNCHANGED <<prevSpace, handledHere, walkedOff, ledger, mono>>

\* Game::update outside PLAYING: the early return.
UpdateIdle ==
    /\ pc = "update" /\ state # "PLAYING"
    /\ pc' = "handleInput" /\ op' = "update"
    /\ UNCHANGED <<state, selectedChar, player, world, input, data, recycleLog,
                   sinceActivation, ret, frames, runTime>>
    /\ lastDeltaTime' = 0
    /\ UNCHANGED <<prevSpace, handledHere, walkedOff, ledger, mono>>

\* Game::update in PLAYING, with Game::endGame when checkCollisions fires.
UpdatePlayingFrame(deltaTime, flying, r) ==
    /\ pc = "update" /\ state = "PLAYING"
    /\ LET u == PlayingUpdate(player, world, deltaTime, flying, r)
       IN /\ player' = u.player
          /\ world' = u.world
          /\ recycleLog' = u.log
          /\ state' = IF u.over THEN "GAME_OVER" ELSE state
          /\ data' = IF u.over THEN EndGameRecord(data, u.world.coinsCollected) ELSE data
          /\ ledger' = IF u.over
                       THEN [ledger EXCEPT !.tallies = Append(@, u.world.coinsCollected)]
                       ELSE ledger
    /\ sinceActivation' = IF sinceActivation < 0 THEN sinceActivation
                          ELSE IF sinceActivation + deltaTime > AbilityCooldown
                               THEN AbilityCooldown
                               ELSE sinceActivation + deltaTime
    /\ frames' = frames + 1
    /\ pc' = "handleInput" /\ op' = "update"
    /\ UNCHANGED <<selectedChar, input, ret>>
    /\ lastDeltaTime' = deltaTime
    /\ handledHere' = (handledHere /\ state' = state)
    /\ walkedOff' = WalkedOffAfterUpdate(walkedOff, player, player')
    /\ UNCHANGED <<prevSpace, mono>>
    /\ runTime' = runTime + deltaTime

\* A PLAYING update within the frames the search explores.
UpdatePlaying(deltaTime, flying, r) ==
    /\ frames < MaxFrames
    /\ UpdatePlayingFrame(deltaTime, flying, r)

Next ==
    \/ \E keys \in KeySets : HandleInputStart(keys)
    \/ \E keys \in KeySets : HandleInputSelect(keys)
    \/ \E keys \in KeySets : HandleInputPlaying(keys)
    \/ \E keys \in KeySets : HandleInputGameOver(keys)
    \/ UpdateIdle
    \/ \E deltaTime \in DeltaTimes, rnd \in RandOutcomes :
           UpdatePlaying(deltaTime, rnd.flying, rnd.r)

Spec == Init /\ [][Next]_vars

(***************************************************************************)
(* The Player class on its own: its public methods called in any order, as *)
(* Game and main.cpp may call them.  groundY is GameWorld::getGroundY.     *)
(***************************************************************************)
\* Delta-times of Player::update calls the search draws from.
PlayerDeltaTimes == {500, 5000}

InitPlayer ==
    /\ \E c \in 0..3 : /\ selectedChar = c
                       /\ player = StartGame(c).player
    /\ state = "PLAYING"
    /\ world = WorldInit
    /\ input = NewInput
    /\ data = NoRecord
    /\ pc = "player"
    /\ op = "init"
    /\ recycleLog = <<>>
    /\ sinceActivation = -1
    /\ ret = NoRet
    /\ frames = 0
    /\ runTime = 0
    /\ lastDeltaTime = 0
    /\ prevSpace = FALSE
    /\ handledHere = FALSE
    /\ walkedOff = FALSE
    /\ ledger = [loaded |-> data, tallies |-> <<>>]
    /\ mono = NoMono

\* A call of Player::jump
CallJump ==
    /\ pc = "player"
    /\ player' = Jump(player)
    /\ op' = "jump"
    /\ ret' = [fn |-> "jump", val |-> player' # player]
    /\ UNCHANGED <<state, selectedChar, world, input, data, pc, recycleLog,
                   sinceActivation, frames>>
    /\ UNCHANGED <<runTime, lastDeltaTime, prevSpace, handledHere, walkedOff, ledger, mono>>

\* A call of Player::activateAbility; ret.val tells whether the cooldown let it through.
CallActivateAbility ==
    /\ pc = "player"
    /\ player' = ActivateAbility(player)
    /\ op' = "activateAbility"
    /\ ret' = [fn |-> "activateAbility", val |-> player.abilityCooldown <= 0]
    /\ UNCHANGED <<state, selectedChar, world, input, data, pc, recycleLog,
                   sinceActivation, frames>>
    /\ UNCHANGED <<runTime, lastDeltaTime, prevSpace, handledHere, walkedOff, ledger, mono>>

\* A call of Player::update
CallUpdate(deltaTime) ==
    /\ pc = "player"
    /\ player' = PlayerUpdate(player, GetGroundY(player), deltaTime)
    /\ op' = "update"
    /\ ret' = NoRet
    /\ UNCHANGED <<state, selectedChar, world, input, data, pc, recycleLog,
                   sinceActivation, frames>>
    /\ UNCHANGED <<runTime, lastDeltaTime, prevSpace, handledHere, walkedOff, ledger, mono>>

\* A call of Player::isInvincible
CallIsInvincible ==
    /\ pc = "player"
    /\ op' = "isInvincible"
    /\ ret' = [fn |-> "isInvincible", val |-> IsInvincible(player)]
    /\ UNCHANGED <<state, selectedChar, player, world, input, data, pc, recycleLog,
                   sinceActivation, frames, runTime, lastDeltaTime,
                   prevSpace, handledHere, walkedOff, ledger, mono>>

\* A call of Player::hasDoubleCoinBonus
CallHasDoubleCoinBonus ==
    /\ pc = "player"
    /\ op' = "hasDoubleCoinBonus"
    /\ ret' = [fn |-> "hasDoubleCoinBonus", val |-> HasDoubleCoinBonus(player)]
    /\ UNCHANGED <<state, selectedChar, player, world, input, data, pc, recycleLog,
                   sinceActivation, frames, runTime, lastDeltaTime,
                   prevSpace, handledHere, walkedOff, ledger, mono>>

\* A call of Player::getPlayerSpeedMultiplier; ret.val is the factor in tenths.
CallGetPlayerSpeedMultiplier ==
    /\ pc = "player"
    /\ op' = "getPlayerSpeedMultiplier"
    /\ ret' = [fn |-> "getPlayerSpeedMultiplier", val |-> GetPlayerSpeedMultiplier(player)]
    /\ UNCHANGED <<state, selectedChar, player, world, input, data, pc, recycleLog,
                   sinceActivation, frames, runTime, lastDeltaTime,
                   prevSpace, handledHere, walkedOff, ledger, mono>>

NextPlayer ==
    \/ CallJump
    \/ CallActivateAbility
    \/ \E deltaTime \in PlayerDeltaTimes : CallUpdate(deltaTime)
    \/ CallIsInvincible
    \/ CallHasDoubleCoinBonus
    \/ CallGetPlayerSpeedMultiplier

SpecPlayer == InitPlayer /\ [][NextPlayer]_vars

(***************************************************************************)
(* The queries of GameWorld on their own: isPlayerOnPlatform,              *)
(* checkObstacleCollision and checkFallThrough applied to a player and a   *)
(* world drawn from bounded sets.                                          *)
(***************************************************************************)
\* Distances the initial layout has scrolled.  The player's center is at 220:
\* 380 puts it on the seam of platforms 0 and 1, 730 on the right edge of
\* platform 1, 810 on the left edge of platform 2, 770 in the gap between.
QueryScrolls == {0, 3790, 3800, 3810, 7290, 7300, 7310, 7700, 8090, 8100, 8110}

\* Player heights (top edge y).  groundY is 420 and platform level 500:
\* 415 = groundY - 5, 469 / 471 = groundY + 49 / 51, 549 / 551 = platform + 49 / 51;
\* 240, 350, 360 touch or overlap the obstacle bands.
QueryYs == {2400, 2410, 3490, 3500, 3600, 3610, 4140, 4150, 4160, 4200,
            4690, 4710, 5490, 5500, 5510}

\* Left edges of an obstacle (width 40) around the player's box [200, 240).
QueryObstacleXs == {1590, 1600, 1610, 2390, 2400, 2410}

\* Ability states of the player: (headIndex, abilityActive).
QueryAbilities == {<<0, FALSE>>, <<0, TRUE>>, <<1, TRUE>>}

QueryObstacle(x, flying) ==
    Obstacle(x, IF flying THEN metroY - 1800 ELSE metroY - 600, ObstacleWidth,
             IF flying THEN 300 ELSE 600, flying)

QueryObstacleLayouts ==
    {<<>>}
    \cup {<<QueryObstacle(x, f)>> : x \in QueryObstacleXs, f \in BOOLEAN}
    \cup {<<QueryObstacle(9000, TRUE), QueryObstacle(x, FALSE)>> : x \in QueryObstacleXs}

InitQuery ==
    /\ \E y \in QueryYs, a \in QueryAbilities :
           player = [StartGame(a[1]).player EXCEPT !.y = y, !.abilityActive = a[2],
                         !.isJumping = y # GetGroundY(NewPlayer)]
    /\ \E sh \in QueryScrolls, obs \in QueryObstacleLayouts :
           world = [WorldInit EXCEPT
                       !.metros = [k \in 1..MetroCount |->
                                      [InitialMetros[k] EXCEPT !.x = @ - sh]],
                       !.obstacles = obs]
    /\ state = "PLAYING"
    /\ selectedChar = player.headIndex
    /\ input = NewInput
    /\ data = NoRecord
    /\ pc = "query"
    /\ op = "init"
    /\ recycleLog = <<>>
    /\ sinceActivation = -1
    /\ ret = NoRet
    /\ frames = 0
    /\ runTime = 0
    /\ lastDeltaTime = 0
    /\ prevSpace = FALSE
    /\ handledHere = FALSE
    /\ walkedOff = FALSE
    /\ ledger = [loaded |-> data, tallies |-> <<>>]
    /\ mono = NoMono

\* A call of GameWorld::isPlayerOnPlatform
CallIsPlayerOnPlatform ==
    /\ pc = "query"
    /\ ret' = [fn |-> "isPlayerOnPlatform", val |-> IsPlayerOnPlatform(world.metros, player)]
    /\ op' = "query"
    /\ UNCHANGED <<state, selectedChar, player, world, input, data, pc, recycleLog,
                   sinceActivation, frames>>
    /\ UNCHANGED <<runTime, lastDeltaTime, prevSpace, handledHere, walkedOff, ledger, mono>>

\* A call of GameWorld::checkObstacleCollision
CallCheckObstacleCollision ==
    /\ pc = "query"
    /\ ret' = [fn |-> "checkObstacleCollision",
               val |-> CheckObstacleCollision(world.obstacles, player)]
    /\ op' = "query"
    /\ UNCHANGED <<state, selectedChar, player, world, input, data, pc, recycleLog,
                   sinceActivation, frames>>
    /\ UNCHANGED <<runTime, lastDeltaTime, prevSpace, handledHere, walkedOff, ledger, mono>>

\* A call of GameWorld::checkFallThrough
CallCheckFallThrough ==
    /\ pc = "query"
    /\ ret' = [fn |-> "checkFallThrough", val |-> CheckFallThrough(world.metros, player)]
    /\ op' = "query"
    /\ UNCHANGED <<state, selectedChar, player, world, input, data, pc, recycleLog,
                   sinceActivation, frames>>
    /\ UNCHANGED <<runTime, lastDeltaTime, prevSpace, handledHere, walkedOff, ledger, mono>>

NextQuery ==
    \/ CallIsPlayerOnPlatform
    \/ CallCheckObstacleCollision
    \/ CallCheckFallThrough

SpecQuery == InitQuery /\ [][NextQuery]_vars

(***************************************************************************)
(* GameWorld::init and GameWorld::update called directly, on worlds with    *)
(* coins placed around a player who does not move.                          *)
(***************************************************************************)
WorldDeltaTimes == {20, 7000}

\* Player heights (top edge y): 270 / 370 touch the band of a coin at
\* y = 350 from above / below, 271 also touches a coin at y = 251 from
\* below, 369 overlaps, 420 is the ground.
WorldYs == {2700, 2710, 3690, 3700, 4200}

\* Ability states of the player: (headIndex, abilityActive).
WorldAbilities == {<<0, TRUE>>, <<2, FALSE>>, <<2, TRUE>>, <<3, TRUE>>}

\* Coins around the player's box [200, 240); the first update scrolls them
\* by 3 (by 5.4 under dash).
WorldCoinLayouts ==
    {<<>>}
    \cup {<<Coin(x, y)>> : x \in {1830, 1840, 2420, 2430}, y \in {3500, 2510}}
    \cup { <<Coin(1840, 3500), Coin(2420, 3500)>>,
           <<Coin(2420, 3500), Coin(5000, 3500)>>,
           <<Coin(-180, 3500), Coin(2100, 3500)>>,
           <<Coin(-170, 3500)>> }

\* Obstacles around the left edge of the screen: after a scroll by 3 (by
\* 5.4 under dash) the right edge is at 0 or just below it.
WorldObstacleLayouts ==
    {<<>>}
    \cup {<<QueryObstacle(x, FALSE)>> : x \in {-380, -370, -350, -346}}
    \cup { <<QueryObstacle(-380, TRUE), QueryObstacle(3000, FALSE)>> }

\* Spawn timers at the start: both at 0, or each one frame of 20 ms before
\* its period (2.0 s and 1.5 s) is reached exactly.
WorldTimerStarts ==
    { [obstacle |-> 0, coin |-> 0],
      [obstacle |-> ObstaclePeriod - 20, coin |-> CoinPeriod - 20] }

InitWorld ==
    /\ \E y \in WorldYs, a \in WorldAbilities :
           player = [StartGame(a[1]).player EXCEPT !.y = y, !.abilityActive = a[2],
                         !.isJumping = y # GetGroundY(NewPlayer)]
    /\ \E cs \in WorldCoinLayouts, obs \in WorldObstacleLayouts,
          tm \in WorldTimerStarts :
           /\ cs = <<>> \/ obs = <<>>
           /\ tm = [obstacle |-> 0, coin |-> 0] \/ (cs = <<>> /\ obs = <<>>)
           /\ world = [WorldInit EXCEPT !.coins = cs, !.obstacles = obs,
                                        !.obstacleTimer = tm.obstacle,
                                        !.coinTimer = tm.coin]
    /\ state = "PLAYING"
    /\ selectedChar = player.headIndex
    /\ input = NewInput
    /\ data = NoRecord
    /\ pc = "world"
    /\ op = "init"
    /\ recycleLog = <<>>
    /\ sinceActivation = -1
    /\ ret = NoRet
    /\ frames = 0
    /\ runTime = 0
    /\ lastDeltaTime = 0
    /\ prevSpace = FALSE
    /\ handledHere = FALSE
    /\ walkedOff = FALSE
    /\ ledger = [loaded |-> data, tallies |-> <<>>]
    /\ mono = NoMono

\* A call of GameWorld::init
CallWorldInit ==
    /\ pc = "world"
    /\ world' = WorldInit
    /\ op' = "init"
    /\ recycleLog' = <<>>
    /\ runTime' = 0
    /\ lastDeltaTime' = 0
    /\ UNCHANGED <<prevSpace, handledHere, walkedOff, ledger, mono>>
    /\ UNCHANGED <<state, selectedChar, player, input, data, pc, sinceActivation,
                   ret, frames>>

\* A call of GameWorld::update
CallWorldUpdate(deltaTime, flying, r) ==
    /\ pc = "world"
    /\ frames < MaxFrames
    /\ LET u == WorldUpdate(world, deltaTime, player, flying, r)
       IN /\ world' = u.world
          /\ recycleLog' = u.log
    /\ op' = "update"
    /\ frames' = frames + 1
    /\ runTime' = runTime + deltaTime
    /\ lastDeltaTime' = deltaTime
    /\ UNCHANGED <<prevSpace, handledHere, walkedOff, ledger, mono>>
    /\ UNCHANGED <<state, selectedChar, player, input, data, pc, sinceActivation, ret>>

NextWorld ==
    \/ CallWorldInit
    \/ \E deltaTime \in WorldDeltaTimes, rnd \in RandOutcomes :
           CallWorldUpdate(deltaTime, rnd.flying, rnd.r)

SpecWorld == InitWorld /\ [][NextWorld]_vars

\* The game and direct calls of GameWorld, explored together.
SpecGameAndWorld == (Init \/ InitWorld) /\ [][Next \/ NextWorld]_vars

(***************************************************************************)
(* Airborne periods followed to their end: 50 fps frames of a run in       *)
(* PLAYING with the jump key up or down, from a few frames before the      *)
(* end of the second platform.   The game loop of Game::run calls           *)
(* handleInput and update in every iteration, so the frames keep coming.   *)
(***************************************************************************)
\* Frames in which the search lets a new airborne period begin.
MaxAirFrames == 6

\* Frames after which the search gives up on an airborne period.
AirFramesLimit == 200

AirKeySets == {{}, {"UP"}}

\* Four frames before the player's center has left the second platform (the
\* update of frame 245 finds it over the gap): the double-jump variant with
\* its ability active, and the shield variant.
AirScripts ==
    { [char |-> 1, n |-> 240, jumps |-> {}, abilities |-> {230}, dt |-> 20,
        flying |-> FALSE, r |-> 0, record |-> NoRecord],
      [char |-> 0, n |-> 240, jumps |-> {}, abilities |-> {}, dt |-> 20,
        flying |-> FALSE, r |-> 0, record |-> NoRecord] }

InitAirborne == \E sc \in AirScripts : InitFromScript(sc)

\* The frames the airborne search explores: the first MaxAirFrames, and
\* then those of the airborne period in progress.
AirborneFrame ==
    frames < MaxAirFrames \/ (player.isJumping /\ frames < AirFramesLimit)

\* Game::handleInput in PLAYING, in the airborne search.
HandleInputAirborne(keys) == AirborneFrame /\ HandleInputPlaying(keys)

\* Game::update in PLAYING, in the airborne search.
UpdateAirborne(deltaTime, flying, r) ==
    /\ frames < AirFramesLimit
    /\ UpdatePlayingFrame(deltaTime, flying, r)

NextAirborne ==
    \/ \E keys \in AirKeySets : HandleInputAirborne(keys)
    \/ UpdateAirborne(20, FALSE, 0)

\* Game::run: the loop goes on to its next call, handleInput after update
\* and update after handleInput, as long as the search has a frame left.
\* Every step of NextAirborne is such a step and one is possible exactly when
\* NextAirborne is enabled.
LoopStep ==
    /\ state = "PLAYING"
    /\ \/ pc = "handleInput" /\ AirborneFrame
       \/ pc = "update" /\ frames < AirFramesLimit
    /\ pc' = IF pc = "update" THEN "handleInput" ELSE "update"

\* The loop never stops calling: weak fairness of its steps.
SpecAirborne == InitAirborne /\ [][NextAirborne]_vars /\ WF_pc(LoopStep)

(***************************************************************************)
(* The persisted record over a sequence of runs: Game::endGame called with *)
(* the tally of one finished run after the other.                          *)
(***************************************************************************)
\* Finished runs the search follows.
MaxRuns == 3

\* Coin tallies of a finished run the search draws from.
RunTallies == {0, 1, 3, 6}

InitRecord ==
    /\ state = "PLAYING"
    /\ selectedChar = 0
    /\ player = StartGame(0).player
    /\ world = WorldInit
    /\ input = NewInput
    /\ data \in LoadedRecords
    /\ pc = "record"
    /\ op = "init"
    /\ recycleLog = <<>>
    /\ sinceActivation = -1
    /\ ret = NoRet
    /\ frames = 0
    /\ runTime = 0
    /\ lastDeltaTime = 0
    /\ prevSpace = FALSE
    /\ handledHere = FALSE
    /\ walkedOff = FALSE
    /\ ledger = [loaded |-> data, tallies |-> <<>>]
    /\ mono = NoMono

\* Game::endGame at the end of a run that collected c coins.
CallEndGame(c) ==
    /\ pc = "record"
    /\ Len(ledger.tallies) < MaxRuns
    /\ state' = "GAME_OVER"
    /\ world' = [world EXCEPT !.coinsCollected = c]
    /\ data' = EndGameRecord(data, c)
    /\ ledger' = [ledger EXCEPT !.tallies = Append(@, c)]
    /\ op' = "endGame"
    /\ UNCHANGED <<selectedChar, player, input, pc, recycleLog, sinceActivation,
                   ret, frames, runTime, lastDeltaTime, prevSpace, handledHere,
                   walkedOff, mono>>

NextRecord == \E c \in RunTallies : CallEndGame(c)

SpecRecord == InitRecord /\ [][NextRecord]_vars

\* The game and sequences of finished runs, explored together.
SpecGameAndRecord == (Init \/ InitRecord) /\ [][Next \/ NextRecord]_vars

(***************************************************************************)
(* main.cpp: the whole program in one loop, with the state machine as a    *)
(* chain of if / else if, so that one iteration runs the block of one      *)
(* state.  mono holds its locals and function statics: state, selectedChar,*)
(* player, the collections with gameSpeed, speedIncreaseTimer,             *)
(* coinsCollected, obstacleTimer and coinTimer (in world, with the field   *)
(* names of GameWorld), the debounce statics of each block, the record of  *)
(* its ScoreManager, and the inputs its last iteration read.  It shares    *)
(* Player.h, GameObject.h and GameData.h with the game.                    *)
(***************************************************************************)
\* main, before the loop: the locals and the statics as initialised.
MainConstructed(d) ==
    [on |-> TRUE, state |-> "START_SCREEN", selectedChar |-> 0,
     player |-> [NewPlayer EXCEPT !.y = metroY - NewPlayer.height],
     world |-> [metros |-> [i \in 1..MetroCount |->
                              IF i = 1 THEN Metro(0, FirstMetroWidth)
                              ELSE Metro(FirstMetroWidth
                                         + (i - 2) * (MetroWidth + metroGap), MetroWidth)],
                obstacles |-> <<>>, coins |-> <<>>,
                gameSpeed |-> InitialSpeed, speedIncreaseTimer |-> 0,
                coinsCollected |-> 0, obstacleTimer |-> 0, coinTimer |-> 0],
     anyKeyPressed |-> FALSE, leftPressed |-> FALSE, rightPressed |-> FALSE,
     selectSpacePressed |-> FALSE, qPressed |-> FALSE, overSpacePressed |-> FALSE,
     data |-> d, keys |-> {}, deltaTime |-> 0,
     rnd |-> [flying |-> FALSE, r |-> 0], frames |-> 0]

\* The START_SCREEN block.
MainStartScreen(m, keys) ==
    LET keyPressed == keys # {}
    IN [m EXCEPT !.state = IF keyPressed /\ ~m.anyKeyPressed
                           THEN "CHARACTER_SELECT" ELSE @,
                 !.anyKeyPressed = keyPressed]

\* The CHARACTER_SELECT block.  The commit resets the player, the speed, the
\* tally and the collections; speedIncreaseTimer and the statics
\* obstacleTimer and coinTimer keep their values.
MainCharacterSelect(m, keys) ==
    LET c1 == IF "LEFT" \in keys /\ ~m.leftPressed
              THEN (m.selectedChar - 1 + 4) % 4 ELSE m.selectedChar
        c2 == IF "RIGHT" \in keys /\ ~m.rightPressed THEN (c1 + 1) % 4 ELSE c1
        go == "SPACE" \in keys /\ ~m.selectSpacePressed
        p0 == [NewPlayer EXCEPT !.headIndex = c2]
        m1 == [m EXCEPT !.selectedChar = c2,
                        !.leftPressed = "LEFT" \in keys,
                        !.rightPressed = "RIGHT" \in keys,
                        !.selectSpacePressed = "SPACE" \in keys]
    IN IF go
       THEN [m1 EXCEPT !.state = "PLAYING",
                       !.player = [p0 EXCEPT !.y = metroY - p0.height],
                       !.world = [@ EXCEPT !.gameSpeed = InitialSpeed,
                                           !.coinsCollected = 0,
                                           !.metros = MainConstructed(m.data).world.metros,
                                           !.obstacles = <<>>,
                                           !.coins = <<>>]]
       ELSE m1

\* The PLAYING block, the loop that moves the metros: in list order and in
\* place, a recycled platform goes 350 + metroGap behind the largest x.
RECURSIVE MainMaxX(_, _, _)
MainMaxX(ms, j, maxX) ==
    IF j > Len(ms) THEN maxX
    ELSE MainMaxX(ms, j + 1, IF ms[j].x > maxX THEN ms[j].x ELSE maxX)

RECURSIVE MainMoveMetros(_, _, _)
MainMoveMetros(ms, i, eff) ==
    IF i > Len(ms) THEN ms
    ELSE LET moved == [ms EXCEPT ![i].x = @ - eff]
         IN IF moved[i].x + moved[i].width < RecycleEdge
            THEN MainMoveMetros(
                     [moved EXCEPT ![i].x = MainMaxX(moved, 1, MaxXFloor)
                                            + MetroWidth + metroGap],
                     i + 1, eff)
            ELSE MainMoveMetros(moved, i + 1, eff)

\* The PLAYING block, the player: the jump and ability keys, the platform
\* check and the physics.
MainPlayer(m, keys) ==
    LET pj == IF "UP" \in keys \/ "SPACE" \in keys THEN Jump(m.player) ELSE m.player
        pa == IF "Q" \in keys /\ ~m.qPressed THEN ActivateAbility(pj) ELSE pj
        groundY == metroY - pa.height
        standingOnPlatform ==
            /\ pa.y >= groundY - GroundSlack
            /\ \E k \in 1..Len(m.world.metros) : OverMetro(pa, m.world.metros[k])
    IN [standing |-> standingOnPlatform, groundY |-> groundY, player |-> pa]

MainPhysics(pl, deltaTime) ==
    LET p == pl.player
    IN IF pl.standing /\ ~p.isJumping
       THEN PlayerUpdate(p, pl.groundY, deltaTime)
       ELSE LET p1 == IF ~p.isJumping /\ p.y >= pl.groundY
                      THEN [p EXCEPT !.isJumping = TRUE, !.velocityY = FallVelocity]
                      ELSE p
                p2 == [p1 EXCEPT !.y = @ + p1.velocityY, !.velocityY = @ + Gravity]
            IN IF p2.y >= pl.groundY /\ pl.standing
               THEN [p2 EXCEPT !.y = pl.groundY, !.velocityY = 0, !.isJumping = FALSE,
                               !.hasDoubleJumped = FALSE]
               ELSE p2

\* The PLAYING block, the metros, obstacles and coins for the player p at
\* the scroll speed of this frame.
MainScroll(w, p, speed, deltaTime, rnd) ==
    LET eff      == (speed * GetSpeedMultiplier(p) * GetPlayerSpeedMultiplier(p))
                    \div (UnitFactor * UnitFactor)
        ot       == w.obstacleTimer + deltaTime
        oSpawn   == ot > ObstaclePeriod
        obs0     == IF oSpawn
                    THEN Append(w.obstacles,
                             Obstacle(SCREEN_WIDTH + ObstacleSpawnOffset,
                                      IF rnd.flying THEN metroY - 1800 ELSE metroY - 600,
                                      ObstacleWidth,
                                      IF rnd.flying THEN 300 ELSE 600, rnd.flying))
                    ELSE w.obstacles
        obs1     == [k \in 1..Len(obs0) |-> [obs0[k] EXCEPT !.x = @ - eff]]
        Active(o) == ~(o.x + o.width < 0)
        ct       == w.coinTimer + deltaTime
        cSpawn   == ct > CoinPeriod
        cs0      == IF cSpawn
                    THEN Append(w.coins, Coin(SCREEN_WIDTH + CoinSpawnOffset,
                                              metroY - 1500 - rnd.r * UnitFactor))
                    ELSE w.coins
        cs1      == [k \in 1..Len(cs0) |-> [cs0[k] EXCEPT !.x = @ - eff]]
        Collected(c) == /\ p.x < c.x + c.size /\ p.x + p.width > c.x
                        /\ p.y < c.y + c.size /\ p.y + p.height > c.y
        Kept(c)  == ~(c.x + c.size < 0 \/ Collected(c))
        coinValue == IF HasDoubleCoinBonus(p) THEN 2 ELSE 1
    IN [w EXCEPT !.metros = MainMoveMetros(w.metros, 1, eff),
                 !.obstacles = SelectSeq(obs1, Active),
                 !.obstacleTimer = IF oSpawn THEN 0 ELSE ot,
                 !.coins = SelectSeq(cs1, Kept),
                 !.coinTimer = IF cSpawn THEN 0 ELSE ct,
                 !.coinsCollected =
                     @ + coinValue * Cardinality({k \in 1..Len(cs1) : Collected(cs1[k])})]

\* The PLAYING block, the two game-over tests.  The record is committed
\* (updateBestScore, addCoins) once for every obstacle the player touches,
\* and once more when the player has fallen.
RECURSIVE MainCommit(_, _, _)
MainCommit(d, c, times) ==
    IF times = 0 THEN d ELSE MainCommit(EndGameRecord(d, c), c, times - 1)

MainGameOverTests(w, p) ==
    LET touched == IF IsInvincible(p) THEN {}
                   ELSE {k \in 1..Len(w.obstacles) :
                            /\ p.x < w.obstacles[k].x + w.obstacles[k].width
                            /\ p.x + p.width > w.obstacles[k].x
                            /\ p.y < w.obstacles[k].y + w.obstacles[k].height
                            /\ p.y + p.height > w.obstacles[k].y}
        onPlatform == \E k \in 1..Len(w.metros) : OverMetro(p, w.metros[k])
        fell == ~onPlatform /\ p.y > metroY + FallMargin
    IN Cardinality(touched) + (IF fell THEN 1 ELSE 0)

\* The PLAYING block.
MainPlaying(m, keys, deltaTime, rnd) ==
    LET t1    == m.world.speedIncreaseTimer + deltaTime
        ramp  == t1 >= SpeedPeriod
        speed == IF ramp THEN m.world.gameSpeed + SpeedStep ELSE m.world.gameSpeed
        p     == MainPhysics(MainPlayer(m, keys), deltaTime)
        w     == MainScroll([m.world EXCEPT !.gameSpeed = speed,
                                            !.speedIncreaseTimer = IF ramp THEN 0 ELSE t1],
                            p, speed, deltaTime, rnd)
        times == MainGameOverTests(w, p)
    IN [m EXCEPT !.player = p,
                 !.world = w,
                 !.qPressed = "Q" \in keys,
                 !.state = IF times > 0 THEN "GAME_OVER" ELSE @,
                 !.data = MainCommit(@, w.coinsCollected, times)]

\* The GAME_OVER block, with its own static spacePressed.
MainGameOver(m, keys) ==
    [m EXCEPT !.state = IF "SPACE" \in keys /\ ~m.overSpacePressed
                        THEN "CHARACTER_SELECT" ELSE @,
              !.overSpacePressed = "SPACE" \in keys]

\* One iteration of the loop up to the rendering.
MainFrame(m, keys, deltaTime, rnd) ==
    CASE m.state = "START_SCREEN" -> MainStartScreen(m, keys)
      [] m.state = "CHARACTER_SELECT" -> MainCharacterSelect(m, keys)
      [] m.state = "PLAYING" -> MainPlaying(m, keys, deltaTime, rnd)
      [] m.state = "GAME_OVER" -> MainGameOver(m, keys)

(***************************************************************************)
(* The two programs side by side.  In every frame the loop of main.cpp     *)
(* runs one iteration on the frame's keys, delta-time and rand() outcomes, *)
(* and Game::run runs handleInput and update on the same ones.  op =       *)
(* "main" marks the frame main.cpp has done and the game has not.          *)
(***************************************************************************)
\* The keys of frame f of a script.
ScriptKeys(sc, f) ==
    (IF f \in sc.jumps THEN {"UP"} ELSE {})
    \cup (IF f \in sc.abilities THEN {"Q"} ELSE {})

\* Key states that lead through the menus to a run with character c: a key
\* on the start screen, c presses of the right key, then space.
MenuKeys(c) ==
    <<{"UP"}>> \o [k \in 1..(2 * c) |-> IF k % 2 = 1 THEN {"RIGHT"} ELSE {}]
               \o <<{"SPACE"}>>

\* main.cpp run over a sequence of key states.
RECURSIVE MainKeyed(_, _, _, _, _)
MainKeyed(m, ks, k, deltaTime, rnd) ==
    IF k > Len(ks) THEN m
    ELSE MainKeyed(MainFrame(m, ks[k], deltaTime, rnd), ks, k + 1, deltaTime, rnd)

\* main.cpp run over the frames a..b of a script, in order.  No script holds
\* the space key, so the GAME_OVER block changes nothing once the run is over.
RECURSIVE MainReplay(_, _, _, _)
MainReplay(sc, a, b, m) ==
    IF m.state = "GAME_OVER" \/ a > b THEN m
    ELSE IF a = b
         THEN MainFrame(m, ScriptKeys(sc, a), sc.dt, [flying |-> sc.flying, r |-> sc.r])
         ELSE LET mid == (a + b) \div 2
              IN MainReplay(sc, mid + 1, b, MainReplay(sc, a, mid, m))

\* main.cpp after the menus and the frames of a script.  The frame of the
\* commit is frame 1 of the script: Game::run calls update in it, and
\* main.cpp runs the CHARACTER_SELECT block only.
MainFromScript(sc) ==
    LET rnd == [flying |-> sc.flying, r |-> sc.r]
        m0  == MainKeyed(MainConstructed(sc.record), MenuKeys(sc.char), 1, sc.dt, rnd)
        m1  == MainReplay(sc, 2, sc.n, m0)
    IN [m1 EXCEPT !.keys = ScriptKeys(sc, sc.n), !.deltaTime = sc.dt, !.rnd = rnd,
                  !.frames = 0]

\* The scripts of the side-by-side runs: falling into the first gap, two
\* frames before the fall ends the game's run; just before the first
\* recycling.
LockstepScripts ==
    { [char |-> 1, n |-> 264, jumps |-> {}, abilities |-> {}, dt |-> 20,
        flying |-> FALSE, r |-> 0, record |-> NoRecord],
      [char |-> 3, n |-> 214, jumps |-> {}, abilities |-> {}, dt |-> 20,
        flying |-> FALSE, r |-> 0, record |-> NoRecord] }

InitLockstep ==
    \/ GameConstructed /\ mono = MainConstructed(data)
    \/ \E sc \in LockstepScripts : GameFromScript(sc) /\ mono = MainFromScript(sc)

\* A frame in which neither program reads the delta-time or calls rand():
\* both are in a menu and the game does not start a run.
IdleFrame(keys) ==
    /\ mono.state # "PLAYING" /\ state # "PLAYING"
    /\ ~(state = "CHARACTER_SELECT" /\ "SPACE" \in keys)

\* One iteration of main.cpp's loop on the inputs of the next frame, within
\* the frames the search explores.  mono.frames counts the iterations of the
\* PLAYING block.
MainLoopIteration(keys, deltaTime, rnd) ==
    /\ mono.on /\ pc = "handleInput" /\ op # "main"
    /\ state = "PLAYING" => frames < MaxFrames
    /\ mono.state = "PLAYING" => mono.frames < MaxFrames
    /\ IdleFrame(keys) => deltaTime = 20 /\ ~rnd.flying
    /\ mono' = [MainFrame(mono, keys, deltaTime, rnd)
                   EXCEPT !.keys = keys, !.deltaTime = deltaTime, !.rnd = rnd,
                          !.frames = IF mono.state = "PLAYING" THEN @ + 1 ELSE @]
    /\ op' = "main"
    /\ UNCHANGED <<state, selectedChar, player, world, input, data, pc, recycleLog,
                   sinceActivation, ret, frames, runTime, lastDeltaTime,
                   prevSpace, handledHere, walkedOff, ledger>>

\* Game::run, handleInput on the keys main.cpp read.
GameHandleInput ==
    /\ op = "main"
    /\ \/ HandleInputStart(mono.keys)
       \/ HandleInputSelect(mono.keys)
       \/ HandleInputPlaying(mono.keys)
       \/ HandleInputGameOver(mono.keys)

\* Game::run, update on the delta-time and rand() outcomes main.cpp read.
GameUpdate ==
    /\ mono.on
    /\ \/ UpdateIdle
       \/ UpdatePlaying(mono.deltaTime, mono.rnd.flying, mono.rnd.r)

\* The key states the side-by-side runs draw from: space is the menu key,
\* the restart key and a jump key.
LockstepKeySets == {{}, {"SPACE"}, {"RIGHT"}, {"Q"}}

NextLockstep ==
    \/ \E keys \in LockstepKeySets, deltaTime \in DeltaTimes, rnd \in RandOutcomes :
           MainLoopIteration(keys, deltaTime, rnd)
    \/ GameHandleInput
    \/ GameUpdate

SpecLockstep == InitLockstep /\ [][NextLockstep]_vars

\* The game and the queries side by side: the frames of the game, and the
\* queries applied to the players and worlds of InitQuery.
SpecGameAndQueries == (Init \/ InitQuery) /\ [][Next \/ NextQuery]_vars

(***************************************************************************)
(* Properties                                                              *)
(***************************************************************************)
Xs(ms) == {ms[k].x : k \in 1..Len(ms)}

\* The platforms in list order starting after index i and wrapping around.
RotatedAfter(ms, i) == SubSeq(ms, i + 1, Len(ms)) \o SubSeq(ms, 1, i)

StrictlyIncreasingX(ms) == \A k \in 1..(Len(ms) - 1) : ms[k].x < ms[k + 1].x

\* C1: after init and any number of updates and restarts the platform
\* collection holds exactly 8 platforms.
C1_EightPlatforms == Len(world.metros) = MetroCount

\* C1 witness: an update that recycled a platform, the collection still at 8.
C1_Witness ==
    /\ op = "update" /\ recycleLog # <<>>
    /\ Len(world.metros) = MetroCount

CenterInHalfOpenSpan(p, ms) ==
    \E k \in 1..Len(ms) :
        ms[k].x <= p.x + p.width \div 2 /\ p.x + p.width \div 2 < ms[k].x + ms[k].width

CenterInOpenSpan(p, ms) ==
    \E k \in 1..Len(ms) :
        ms[k].x < p.x + p.width \div 2 /\ p.x + p.width \div 2 < ms[k].x + ms[k].width

\* C3 as stated: isPlayerOnPlatform is true iff y >= groundY - 5 and the
\* player's center is in [p.x, p.x + p.width) of some platform p.
C3_OnPlatformHalfOpen ==
    ret.fn = "isPlayerOnPlatform" =>
        (ret.val <=> (player.y >= (metroY - player.height) - GroundSlack
                      /\ CenterInHalfOpenSpan(player, world.metros)))

\* C3 amended: isPlayerOnPlatform is true iff y >= groundY - 5 and the
\* player's center is strictly inside (p.x, p.x + p.width) of some platform p;
\* with the center exactly on a platform edge it is false.
C3_OnPlatformOpen ==
    ret.fn = "isPlayerOnPlatform" =>
        (ret.val <=> (player.y >= (metroY - player.height) - GroundSlack
                      /\ CenterInOpenSpan(player, world.metros)))

\* C3 witness: at y = groundY - 5, center inside a platform, the query is true.
C3_Witness ==
    /\ ret.fn = "isPlayerOnPlatform" /\ ret.val
    /\ player.y = (metroY - player.height) - GroundSlack

\* C4: checkFallThrough is false whenever the player's center is over a
\* platform, whatever y; over no platform it is true iff y > metroY + 50.
C4_FallThrough ==
    ret.fn = "checkFallThrough" =>
        (ret.val <=> (~CenterInOpenSpan(player, world.metros)
                      /\ player.y > metroY + FallMargin))

\* C4 witness: a player below metroY + 50 but over a platform: not a fall.
C4_Witness ==
    /\ ret.fn = "checkFallThrough" /\ ~ret.val
    /\ player.y > metroY + FallMargin
    /\ CenterInOpenSpan(player, world.metros)

\* C5 as stated: over no platform, checkFallThrough is true at
\* y = groundY + 51 and false at y = groundY + 49.
C5_FallAtGroundPlus51 ==
    ret.fn = "checkFallThrough" /\ ~CenterInOpenSpan(player, world.metros) =>
        /\ player.y = GetGroundY(player) + FallMargin + 10 => ret.val
        /\ player.y = GetGroundY(player) + FallMargin - 10 => ~ret.val

\* C5 amended: over no platform, checkFallThrough is true at
\* y = metroY + 51 and false at y = metroY + 49, metroY being the platform
\* level getGroundY + player height; at groundY + 51 and groundY + 49 it is false.
C5_FallAtPlatformPlus51 ==
    ret.fn = "checkFallThrough" /\ ~CenterInOpenSpan(player, world.metros) =>
        /\ player.y = GetGroundY(player) + player.height + FallMargin + 10 => ret.val
        /\ player.y = GetGroundY(player) + player.height + FallMargin - 10 => ~ret.val
        /\ player.y = GetGroundY(player) + FallMargin + 10 => ~ret.val
        /\ player.y = GetGroundY(player) + FallMargin - 10 => ~ret.val

\* C5 witness: over no platform at y = metroY + 51, the query is true.
C5_Witness ==
    /\ ret.fn = "checkFallThrough" /\ ret.val
    /\ ~CenterInOpenSpan(player, world.metros)
    /\ player.y = metroY + FallMargin + 10

\* Strict overlap of the player's box and an obstacle's box on both axes.
StrictOverlap(p, o) ==
    /\ p.x < o.x + o.width /\ o.x < p.x + p.width
    /\ p.y < o.y + o.height /\ o.y < p.y + p.height

\* C6: a frame leaves PLAYING iff after its player update and world update
\* checkObstacleCollision or checkFallThrough is true, and it then enters
\* GAME_OVER; nothing else ends a run.
C6_GameOverIffCollision ==
    [][ /\ (pc = "update" /\ state = "PLAYING" =>
               ((state' = "GAME_OVER")
                  <=> (CheckObstacleCollision(world'.obstacles, player')
                       \/ CheckFallThrough(world'.metros, player'))))
        /\ (state = "PLAYING" /\ state' # "PLAYING" =>
               pc = "update" /\ state' = "GAME_OVER") ]_vars

\* C6 witness: a run just ended by an obstacle.
C6_Witness ==
    /\ state = "GAME_OVER" /\ op = "update"
    /\ CheckObstacleCollision(world.obstacles, player)
    /\ ~CheckFallThrough(world.metros, player)

\* C7: checkObstacleCollision is false for a variant-0 player with the
\* ability active, whatever the obstacles; otherwise it is true iff some
\* obstacle's box strictly overlaps the player's box on both axes.  So a
\* PLAYING frame that ends with the shield active goes to GAME_OVER only by
\* a fall, never by an obstacle.
C7_ShieldOrOverlap ==
    /\ [](ret.fn = "checkObstacleCollision" =>
            IF player.headIndex = 0 /\ player.abilityActive
            THEN ~ret.val
            ELSE ret.val <=> \E k \in 1..Len(world.obstacles) :
                                 StrictOverlap(player, world.obstacles[k]))
    /\ [][ pc = "update" /\ state = "PLAYING" /\ state' = "GAME_OVER"
             /\ player'.headIndex = 0 /\ player'.abilityActive =>
                ~CenterInOpenSpan(player', world'.metros)
                /\ player'.y > metroY + FallMargin ]_vars

\* C7 witness: a shielded player overlapping an obstacle, the query false.
C7_Witness ==
    /\ ret.fn = "checkObstacleCollision" /\ ~ret.val
    /\ IsInvincible(player)
    /\ \E k \in 1..Len(world.obstacles) : StrictOverlap(player, world.obstacles[k])

\* C8: activateAbility called with abilityCooldown > 0 leaves every player
\* field unchanged; a second call right after a first changes nothing.
C8_ActivateRefused ==
    [][ /\ (op' = "activateAbility" /\ player.abilityCooldown > 0 => player' = player)
        /\ (op = "activateAbility" /\ op' = "activateAbility" => player' = player) ]_vars

\* C8 witness: a call refused while the ability is still running.
C8_Witness ==
    /\ ret.fn = "activateAbility" /\ ~ret.val
    /\ player.abilityActive /\ player.abilityCooldown > 0

\* C9: activateAbility called with abilityCooldown <= 0 sets abilityActive,
\* sets abilityTimer to 5 / 8 / 6 / 5 s for variants 0..3, sets canDoubleJump
\* for variant 1 only, sets abilityCooldown to 8 s and changes nothing else.
C9_ActivateAccepted ==
    [][ op' = "activateAbility" /\ player.abilityCooldown <= 0 =>
          player' = [player EXCEPT
                        !.abilityActive = TRUE,
                        !.abilityTimer = <<5000, 8000, 6000, 5000>>[player.headIndex + 1],
                        !.canDoubleJump = IF player.headIndex = 1 THEN TRUE ELSE @,
                        !.abilityCooldown = 8000] ]_vars

\* C9 witness: variant 1 activated in mid-air , jump in progress.
C9_Witness ==
    /\ ret.fn = "activateAbility" /\ ret.val
    /\ player.headIndex = 1 /\ player.isJumping /\ player.canDoubleJump
    /\ player.abilityTimer = 8000 /\ player.abilityCooldown = 8000

\* C10: in PLAYING, once the frame delta-times accumulated since an
\* activation reach the variant's duration the ability is no longer active,
\* and once they reach 8 s the cooldown has expired.
C10_AbilityCountsDown ==
    state = "PLAYING" /\ pc = "handleInput" /\ sinceActivation >= 0 =>
        /\ sinceActivation >= AbilityDuration(player.headIndex) => ~player.abilityActive
        /\ sinceActivation >= AbilityCooldown => player.abilityCooldown <= 0

\* C11: in every PLAYING frame the frame's one delta-time advances every
\* timer: the ability timer when the ability is active, the ability cooldown
\* when it is positive, and the obstacle, coin and difficulty timers of the
\* world all move by exactly that delta-time (the world timers then restart
\* from 0 when they pass their period).
C11_TimersAdvanceTogether ==
    [][pc = "update" /\ state = "PLAYING" /\ pc' = "handleInput" =>
          LET dt == lastDeltaTime'
              t1 == world.speedIncreaseTimer + dt
              t2 == world.obstacleTimer + dt
              t3 == world.coinTimer + dt
          IN /\ world'.speedIncreaseTimer = IF t1 >= SpeedPeriod THEN 0 ELSE t1
             /\ world'.obstacleTimer = IF t2 > ObstaclePeriod THEN 0 ELSE t2
             /\ world'.coinTimer = IF t3 > CoinPeriod THEN 0 ELSE t3
             /\ player.abilityActive => player'.abilityTimer = player.abilityTimer - dt
             /\ player.abilityCooldown > 0 =>
                    player'.abilityCooldown = player.abilityCooldown - dt]_vars

\* The world's part of C11 alone: the three world timers move by the frame's delta-time.
C11_WorldTimersAdvance ==
    [][pc = "update" /\ state = "PLAYING" /\ pc' = "handleInput" =>
          LET dt == lastDeltaTime'
              t1 == world.speedIncreaseTimer + dt
              t2 == world.obstacleTimer + dt
              t3 == world.coinTimer + dt
          IN /\ world'.speedIncreaseTimer = IF t1 >= SpeedPeriod THEN 0 ELSE t1
             /\ world'.obstacleTimer = IF t2 > ObstaclePeriod THEN 0 ELSE t2
             /\ world'.coinTimer = IF t3 > CoinPeriod THEN 0 ELSE t3]_vars

\* The game loop and direct calls of the Player methods, explored together.
SpecGameAndPlayer == (Init \/ InitPlayer) /\ [][Next \/ NextPlayer]_vars

\* C12: in every reachable player state, whether reached by game frames or
\* by any sequence of jump, activateAbility and update calls, a positive
\* ability timer implies that the ability is active.
C12_TimerImpliesActive == player.abilityTimer > 0 => player.abilityActive

\* C12 witness: an update has just ended an ability (timer run out, ability
\* off, cooldown of the same activation still running).
C12_Witness ==
    /\ op = "update"
    /\ ~player.abilityActive
    /\ player.abilityTimer <= 0
    /\ player.abilityCooldown > 0

\* C13: for the four head indices and both ability states, isInvincible()
\* returns headIndex = 0 and abilityActive, hasDoubleCoinBonus() returns
\* headIndex = 2 and abilityActive, getPlayerSpeedMultiplier() returns 1.8
\* when headIndex = 3 and abilityActive and 1.0 otherwise, and none of the
\* three calls changes the player.
C13_CapabilityQueries ==
    /\ [](/\ ret.fn = "isInvincible" =>
                (ret.val <=> (player.headIndex = 0 /\ player.abilityActive))
          /\ ret.fn = "hasDoubleCoinBonus" =>
                (ret.val <=> (player.headIndex = 2 /\ player.abilityActive))
          /\ ret.fn = "getPlayerSpeedMultiplier" =>
                ret.val = IF player.headIndex = 3 /\ player.abilityActive
                          THEN 18 ELSE 10)
    /\ [][op' \in {"isInvincible", "hasDoubleCoinBonus", "getPlayerSpeedMultiplier"}
            => player' = player]_vars

\* C13 witness: getPlayerSpeedMultiplier has returned 1.8 for the dashing
\* variant 3.
C13_Witness ==
    /\ ret.fn = "getPlayerSpeedMultiplier"
    /\ ret.val = 18
    /\ player.headIndex = 3
    /\ player.abilityActive

\* C14: a variant-1 player with the ability active gets the upward impulse
\* a second time (velocityY = -12, hasDoubleJumped set) from the first
\* jump() made while airborne after a jump from the ground, and nothing
\* from any further jump() before landing; for any other variant, or with
\* the ability inactive, a jump() while airborne changes nothing.  A used
\* double jump stays used for the rest of the airborne period, so that the
\* impulse is applied at most twice in it.
C14_DoubleJumpOnce ==
    [][/\ pc = "player" /\ op' = "jump" /\ ~player.isJumping =>
              /\ player'.isJumping
              /\ player'.velocityY = -120
              /\ ~player'.hasDoubleJumped
       /\ pc = "player" /\ op' = "jump" /\ player.isJumping =>
              player' = IF /\ player.headIndex = 1
                           /\ player.abilityActive
                           /\ ~player.hasDoubleJumped
                        THEN [player EXCEPT !.velocityY = -120,
                                            !.hasDoubleJumped = TRUE]
                        ELSE player
       /\ player.isJumping /\ player.hasDoubleJumped /\ player'.isJumping =>
              player'.hasDoubleJumped
       /\ /\ pc = "handleInput" /\ state = "PLAYING" /\ player.isJumping
          /\ ~(player.headIndex = 1 /\ player.abilityActive /\ ~player.hasDoubleJumped)
          => /\ player'.velocityY = player.velocityY
             /\ player'.hasDoubleJumped = player.hasDoubleJumped]_vars

\* C14 witness: a variant-1 player with the ability active, airborne with
\* the double jump already used, has called jump() again and nothing changed.
C14_Witness ==
    /\ ret.fn = "jump" /\ ~ret.val
    /\ player.headIndex = 1
    /\ player.abilityActive
    /\ player.isJumping
    /\ player.hasDoubleJumped

\* C15 as stated: jump() is idempotent from the ground: a second jump()
\* right after a jump() made with isJumping false leaves the player as the
\* first call left it.
C15_JumpIdempotent ==
    [][/\ pc = "player" /\ ret.fn = "jump" /\ op = "jump"
       /\ ret.val /\ ~player.hasDoubleJumped
       /\ op' = "jump"
       => player' = player]_vars

\* C15 amended: the second jump() leaves the player as the first call left
\* it unless the player is variant 1 with the ability active; there the
\* second call takes the double-jump branch and sets hasDoubleJumped.  In the
\* game a jump key held while airborne leaves velocityY alone for every
\* player other than a variant-1 player with the ability active.
C15_JumpIdempotentButDoubleJump ==
    [][/\ /\ pc = "player" /\ ret.fn = "jump" /\ op = "jump"
          /\ ret.val /\ ~player.hasDoubleJumped
          /\ op' = "jump"
          => player' = IF player.headIndex = 1 /\ player.abilityActive
                       THEN [player EXCEPT !.hasDoubleJumped = TRUE]
                       ELSE player
       /\ /\ pc = "handleInput" /\ state = "PLAYING" /\ player.isJumping
          /\ ~(player.headIndex = 1 /\ player.abilityActive)
          => player'.velocityY = player.velocityY]_vars

\* C15 witness: jump() was called twice in a row from the ground and the
\* second call changed nothing (the impulse is still unspent).
C15_Witness ==
    /\ ret.fn = "jump" /\ ~ret.val
    /\ player.isJumping
    /\ player.velocityY = -120
    /\ ~player.hasDoubleJumped

\* A step that runs GameWorld::update: a PLAYING frame of the game, or a
\* direct call.  The player that update is given is the primed one.
WorldUpdateStep ==
    /\ op' = "update"
    /\ \/ pc = "update" /\ state = "PLAYING" /\ pc' = "handleInput"
       \/ pc = "world"

\* The coins of the unprimed world as the update scrolls them.
ScrolledCoins ==
    LET eff == EffectiveSpeed(world'.gameSpeed, player')
    IN [k \in 1..Len(world.coins) |-> [world.coins[k] EXCEPT !.x = @ - eff]]

\* Strict overlap of the coin's square and the player's box on both axes.
CoinOverlap(p, c) ==
    /\ p.x < c.x + c.size /\ c.x < p.x + p.width
    /\ p.y < c.y + c.size /\ c.y < p.y + p.height

\* C16: in updateCoins a coin is collected (taken from the world and
\* credited) exactly when, after being scrolled in that update, its square
\* strictly overlaps the player's box on both axes; coins that touch an edge
\* or are disjoint stay (while on screen) and credit nothing.
C16_CollectedIffOverlap ==
    [][WorldUpdateStep =>
          LET sc == ScrolledCoins
          IN /\ \A k \in 1..Len(sc) :
                    sc[k].x + sc[k].size >= 0 =>
                        ((\A j \in 1..Len(world'.coins) : world'.coins[j] # sc[k])
                             <=> CoinOverlap(player', sc[k]))
             /\ world'.coinsCollected > world.coinsCollected
                    <=> \E k \in 1..Len(sc) : CoinOverlap(player', sc[k])]_vars

\* C16 witness: a game frame has just left a coin touching the right edge
\* of the jumping player's box uncollected.
C16_Witness ==
    /\ pc = "handleInput" /\ op = "update" /\ state = "PLAYING" /\ frames > 0
    /\ player.isJumping
    /\ \E k \in 1..Len(world.coins) :
           /\ world.coins[k].x = player.x + player.width
           /\ player.y < world.coins[k].y + world.coins[k].size
           /\ world.coins[k].y < player.y + player.height

\* C17: an update raises the coin tally by exactly 2 for each coin it
\* collects when the player has the double-coin bonus (variant 2, ability
\* active) and by exactly 1 for each otherwise; a credited coin is gone from
\* the world, so none is credited twice; and the tally decreases only by a
\* call of init().
C17_CoinCredit ==
    [][/\ WorldUpdateStep =>
              LET sc    == ScrolledCoins
                  hit   == {k \in 1..Len(sc) : CoinOverlap(player', sc[k])}
                  value == IF player'.headIndex = 2 /\ player'.abilityActive
                           THEN 2 ELSE 1
              IN /\ world'.coinsCollected
                        = world.coinsCollected + value * Cardinality(hit)
                 /\ \A k \in hit : \A j \in 1..Len(world'.coins) :
                        world'.coins[j] # sc[k]
       /\ world'.coinsCollected < world.coinsCollected => world' = WorldInit]_vars

\* C17 witness: in a game frame a variant-2 player with the ability active
\* has collected the first coin of the run for 2.
C17_Witness ==
    /\ pc = "handleInput" /\ op = "update" /\ frames > 0
    /\ player.headIndex = 2 /\ player.abilityActive
    /\ world.coinsCollected = 2

\* C18: from the start of a run the scroll speed stays 3.0 while less than
\* 10.0 s of update time have accumulated, becomes exactly 3.5 in the update
\* in which the accumulated time reaches 10.0 s, and is not raised a second
\* time before 20.0 s have accumulated.
C18_FirstRamp ==
    /\ [](/\ runTime < 10000 => world.gameSpeed = 30
          /\ runTime >= 10000 /\ runTime < 20000 => world.gameSpeed = 35)
    /\ [][WorldUpdateStep /\ runTime < 10000 /\ runTime' >= 10000 =>
              world.gameSpeed = 30 /\ world'.gameSpeed = 35]_vars

\* C18 witness: a run of the game without any input in which exactly 10.0 s
\* have accumulated, running at 3.5.
C18_Witness ==
    /\ state = "PLAYING" /\ pc = "handleInput" /\ op = "update"
    /\ runTime = 10000
    /\ world.gameSpeed = 35
    /\ ~player.isJumping /\ ~player.abilityActive /\ player.abilityCooldown = 0

\* C19 as stated: within a run the scroll speed is 3.0 + 0.5 * k with k the
\* number of completed 10-second periods of update time accumulated since
\* init().
C19_SpeedByElapsedTime == world.gameSpeed = 30 + 5 * (runTime \div 10000)

\* C19 amended: the scroll speed is 3.0 + 0.5 * k, raised by 0.5 in exactly
\* the updates in which the difficulty timer reaches 10 s; the timer then
\* restarts from 0 and drops the excess, so that the k periods took at least
\* 10 s each of the time accumulated since init() (k is at most the number
\* of completed 10-second periods).  The speed is lowered only by init().
C19_SpeedByTimerPeriods ==
    /\ [](LET k == (world.gameSpeed - 30) \div 5
          IN /\ k >= 0
             /\ world.gameSpeed = 30 + 5 * k
             /\ world.speedIncreaseTimer < 10000
             /\ 10000 * k <= runTime - world.speedIncreaseTimer)
    /\ [][/\ WorldUpdateStep =>
                 world'.gameSpeed =
                     IF world.speedIncreaseTimer + lastDeltaTime' >= 10000
                     THEN world.gameSpeed + 5 ELSE world.gameSpeed
          /\ world'.gameSpeed < world.gameSpeed => world' = WorldInit]_vars

\* C19 witness: more than two 10-second periods have accumulated and the
\* speed has been raised once, the excess of the first period having been
\* dropped.
C19_Witness ==
    /\ op = "update"
    /\ runTime >= 20000
    /\ world.gameSpeed = 35
    /\ world.speedIncreaseTimer > 0

\* The edges of the session's state graph.
SessionEdges ==
    { <<"START_SCREEN", "CHARACTER_SELECT">>,
      <<"CHARACTER_SELECT", "PLAYING">>,
      <<"PLAYING", "GAME_OVER">>,
      <<"GAME_OVER", "CHARACTER_SELECT">> }

\* C20: the session state changes only along START_SCREEN ->
\* CHARACTER_SELECT, CHARACTER_SELECT -> PLAYING, PLAYING -> GAME_OVER and
\* GAME_OVER -> CHARACTER_SELECT; it never returns to START_SCREEN once it
\* has left it, and PLAYING is entered only from CHARACTER_SELECT.
C20_SessionEdgesOnly ==
    [][/\ state' # state => <<state, state'>> \in SessionEdges
       /\ state # "START_SCREEN" => state' # "START_SCREEN"
       /\ state' = "PLAYING" /\ state # "PLAYING" => state = "CHARACTER_SELECT"]_vars

\* C20 witness: a second run has just been started: after the frames of an
\* earlier run, over GAME_OVER and CHARACTER_SELECT, the session is PLAYING
\* again with a fresh world.
C20_Witness ==
    /\ state = "PLAYING"
    /\ op = "handleInput"
    /\ frames > 0
    /\ runTime = 0
    /\ world = WorldInit

\* C21: Game::update called in any state other than PLAYING changes
\* nothing: the player, the platforms, obstacles and coins, the scroll
\* speed, all timers, the coin tally, the persisted record, the session
\* state and the selection are the same before and after the call.
C21_IdleUpdateChangesNothing ==
    [][pc = "update" /\ state # "PLAYING" =>
           /\ player' = player
           /\ world' = world
           /\ data' = data
           /\ state' = state
           /\ selectedChar' = selectedChar]_vars

\* C21 witness: update has been called in GAME_OVER, on the world a run
\* left behind.
C21_Witness ==
    /\ state = "GAME_OVER"
    /\ pc = "handleInput" /\ op = "update" /\ lastDeltaTime = 0
    /\ world # WorldInit

\* C22: selectedChar is always in 0..3; in CHARACTER_SELECT a left press
\* maps c to (c + 3) mod 4 and a right press maps c to (c + 1) mod 4 (both
\* in one frame: left, then right); a left press followed by a right press
\* restores the selection, and so do four presses in the same direction.
C22_SelectionCycles ==
    /\ [](/\ selectedChar \in 0..3
          /\ CycleRight(CycleLeft(selectedChar)) = selectedChar
          /\ CycleLeft(CycleLeft(CycleLeft(CycleLeft(selectedChar)))) = selectedChar
          /\ CycleRight(CycleRight(CycleRight(CycleRight(selectedChar)))) = selectedChar)
    /\ [][pc = "handleInput" /\ state = "CHARACTER_SELECT" /\ pc' = "update" =>
              LET left  == input'.leftPressed /\ ~input.leftPressed
                  right == input'.rightPressed /\ ~input.rightPressed
                  c     == selectedChar
              IN selectedChar' =
                     IF left /\ right THEN c
                     ELSE IF left THEN (c + 3) % 4
                     ELSE IF right THEN (c + 1) % 4
                     ELSE c]_vars

\* C22 witness: a left press has just taken the selection from 0 to 3.
C22_Witness ==
    /\ state = "CHARACTER_SELECT" /\ op = "handleInput"
    /\ input.leftPressed /\ ~input.rightPressed
    /\ selectedChar = 3
    /\ frames = 0

\* The platforms GameWorld::init lays out, written out.
FreshMetros ==
    << [x |-> 0, width |-> 6000],     [x |-> 6000, width |-> 3500],
       [x |-> 10300, width |-> 3500], [x |-> 14600, width |-> 3500],
       [x |-> 18900, width |-> 3500], [x |-> 23200, width |-> 3500],
       [x |-> 27500, width |-> 3500], [x |-> 31800, width |-> 3500] >>

\* C23: every commit in CHARACTER_SELECT, on the first run or on a restart
\* after GAME_OVER, enters PLAYING with a fresh player (headIndex =
\* selectedChar, y = groundY = 420, velocityY = 0, not jumping, ability
\* inactive with timer 0 and cooldown 0, double-jump flags false) and a fresh
\* world (the 8 platforms of the initial layout, no obstacles, no coins,
\* scroll speed 3.0, difficulty timer 0, coin tally 0, both spawn timers 0),
\* whatever the previous run left behind.
C23_CommitStartsFresh ==
    [][state = "CHARACTER_SELECT" /\ state' = "PLAYING" =>
           /\ player'.headIndex = selectedChar'
           /\ player'.x = 2000 /\ player'.y = 4200 /\ player'.velocityY = 0
           /\ player'.width = 400 /\ player'.height = 800
           /\ ~player'.isJumping
           /\ ~player'.abilityActive
           /\ player'.abilityTimer = 0 /\ player'.abilityCooldown = 0
           /\ ~player'.canDoubleJump /\ ~player'.hasDoubleJumped
           /\ world'.metros = FreshMetros
           /\ world'.obstacles = <<>> /\ world'.coins = <<>>
           /\ world'.gameSpeed = 30
           /\ world'.speedIncreaseTimer = 0
           /\ world'.coinsCollected = 0
           /\ world'.obstacleTimer = 0 /\ world'.coinTimer = 0]_vars

\* C23 witness: a restart after GAME_OVER with a selection other than the
\* default has just entered PLAYING.
C23_Witness ==
    /\ state = "PLAYING" /\ pc = "update" /\ op = "handleInput"
    /\ frames > 0 /\ runTime = 0
    /\ selectedChar # 0
    /\ player.headIndex = selectedChar
    /\ data \notin LoadedRecords

\* C24: the frame that takes the session to GAME_OVER commits the run's coin
\* tally c once: bestScore becomes max(bestScore, c) and totalCoins becomes
\* totalCoins + c; no other step (a frame of the run, a frame in GAME_OVER or
\* in the menus, the return to CHARACTER_SELECT, the start of a run) changes
\* the persisted record.
C24_CommitOnGameOver ==
    [][IF state # "GAME_OVER" /\ state' = "GAME_OVER"
       THEN LET c == world'.coinsCollected
            IN /\ data'.bestScore = IF c > data.bestScore THEN c ELSE data.bestScore
               /\ data'.totalCoins = data.totalCoins + c
       ELSE data' = data]_vars

\* C24 witness: a run that collected one coin has ended under a loaded best
\* score of 5: the best score stands and the total has grown from 7 to 8.
C24_Witness ==
    /\ state = "GAME_OVER"
    /\ world.coinsCollected = 1
    /\ data.bestScore = 5
    /\ data.totalCoins = 8

\* A run has ended above the best score on record, which it replaces.
C24_WitnessNewBest ==
    /\ state = "GAME_OVER"
    /\ world.coinsCollected = 1
    /\ data.bestScore = 1
    /\ data.totalCoins = 1

\* C25: after init() the 8 platforms lie left to right, the first 600 wide
\* at x = 0 and the other seven 350 wide, and each platform starts 80 after
\* the right edge of the one before it.
C25_InitialLayoutGaps ==
    world = WorldInit =>
        /\ Len(world.metros) = 8
        /\ world.metros[1] = [x |-> 0, width |-> 6000]
        /\ \A k \in 2..8 : world.metros[k].width = 3500
        /\ \A k \in 1..7 :
               world.metros[k + 1].x = world.metros[k].x + world.metros[k].width + 800

\* What init() does lay out: the stated widths and 80 between the last seven
\* platforms, but the second platform starts at the right edge of the first.
C25_InitialLayoutAsBuilt ==
    world = WorldInit =>
        /\ Len(world.metros) = 8
        /\ world.metros[1] = [x |-> 0, width |-> 6000]
        /\ \A k \in 2..8 : world.metros[k].width = 3500
        /\ world.metros[2].x = world.metros[1].x + world.metros[1].width
        /\ \A k \in 2..7 :
               world.metros[k + 1].x = world.metros[k].x + world.metros[k].width + 800

\* C26: the commit CHARACTER_SELECT -> PLAYING happens only in a frame in
\* which the space key is down and was up in the frame before, so that a
\* press held over consecutive frames causes at most one session transition.
C26_CommitOnSpaceEdge ==
    [][state = "CHARACTER_SELECT" /\ state' = "PLAYING" =>
           prevSpace' /\ ~prevSpace]_vars

\* The part of C26 that holds: a commit needs the space key down, and once
\* handleInput has run in CHARACTER_SELECT it needs the key up in the frame
\* before.
C26_CommitOnSpaceEdgeOnceHandled ==
    [][state = "CHARACTER_SELECT" /\ state' = "PLAYING" =>
           prevSpace' /\ (handledHere => ~prevSpace)]_vars

\* C27: a space key that is down when the run ends does not restart: the
\* step GAME_OVER -> CHARACTER_SELECT is taken only by a frame with space
\* down that follows a frame in GAME_OVER with space up, and the press that
\* restarts does not commit the selection: after a run, the commit
\* CHARACTER_SELECT -> PLAYING needs space up in the frame before.
C27_RestartNeedsFreshPress ==
    [][/\ state = "GAME_OVER" /\ state' = "CHARACTER_SELECT" =>
              handledHere /\ ~prevSpace /\ prevSpace'
       /\ state = "CHARACTER_SELECT" /\ state' = "PLAYING" /\ frames > 0 =>
              ~prevSpace /\ prevSpace']_vars

\* C27 witness: handleInput has run in GAME_OVER with the space key down,
\* the key having been down before, and the session is still in GAME_OVER.
C27_Witness ==
    /\ state = "GAME_OVER" /\ op = "handleInput"
    /\ prevSpace /\ handledHere
    /\ input.spacePressed

\* C28: in a PLAYING frame handled by the airborne / falling branch of
\* updatePlayer the player lands (y = groundY, velocityY = 0, isJumping =
\* false, hasDoubleJumped = false) if and only if it stood on a platform at
\* the start of the frame (y >= groundY - 5 with the center over a platform)
\* and y >= groundY after the integration; otherwise it stays airborne with
\* the integrated y and velocity, so that a player whose center is over a
\* gap never lands, wherever its y is.
C28_LandsOnlyOnPlatform ==
    [][pc = "update" /\ state = "PLAYING" /\ pc' = "handleInput" =>
          LET onPlatform == /\ player.y >= 4200 - 50
                            /\ CenterInOpenSpan(player, world.metros)
              airborne   == ~(onPlatform /\ ~player.isJumping)
              fallStart  == ~player.isJumping /\ player.y >= 4200
              v0         == IF fallStart THEN 10 ELSE player.velocityY
              y1         == player.y + v0
          IN airborne =>
                 player' = IF onPlatform /\ y1 >= 4200
                           THEN [player EXCEPT !.y = 4200, !.velocityY = 0,
                                               !.isJumping = FALSE,
                                               !.hasDoubleJumped = FALSE]
                           ELSE [player EXCEPT !.y = y1, !.velocityY = v0 + 5,
                                               !.isJumping = @ \/ fallStart]]_vars

\* C28 witness: the jump of the last script has just landed: the frame
\* before, y had reached groundY without the player having stood on the
\* platform at its start, and the player stayed airborne.
C28_Witness ==
    /\ state = "PLAYING" /\ pc = "handleInput" /\ op = "update"
    /\ player.headIndex = 1
    /\ runTime = 284 * 20 /\ frames = 2
    /\ ~player.isJumping /\ player.y = 4200 /\ player.velocityY = 0

\* The amount an update scrolls by, from the scroll speed it leaves behind:
\* speed x 1.0 x (1.8 for a variant-3 player with the ability active, else 1.0).
ScrollAmount ==
    (world'.gameSpeed * (IF player'.headIndex = 3 /\ player'.abilityActive
                         THEN 18 ELSE 10)) \div 10

\* C29: every GameWorld::update shifts the platforms, the obstacles and the
\* coins left by the same amount, effectiveSpeed = scroll speed x 1.0 x (1.8
\* if the player is variant 3 with the ability active, else 1.0), taken from
\* the scroll speed after the update's difficulty increment.  (A platform
\* the update recycles is first shifted and then relocated; obstacles and
\* coins the update spawns are shifted too.)
C29_UniformScroll ==
    [][WorldUpdateStep =>
          LET eff == ScrollAmount
              recycled == {recycleLog'[e].index : e \in 1..Len(recycleLog')}
          IN /\ \A k \in 1..Len(world.metros) :
                    IF k \in recycled
                    THEN world.metros[k].x - eff + world.metros[k].width < -500
                    ELSE world'.metros[k] =
                             [world.metros[k] EXCEPT !.x = @ - eff]
             /\ \A j \in 1..Len(world'.obstacles) :
                    \/ world'.obstacles[j].x = 12500 - eff
                    \/ \E k \in 1..Len(world.obstacles) :
                           world'.obstacles[j] =
                               [world.obstacles[k] EXCEPT !.x = @ - eff]
             /\ \A k \in 1..Len(world.obstacles) :
                    world.obstacles[k].x - eff + world.obstacles[k].width >= 0 =>
                        \E j \in 1..Len(world'.obstacles) :
                            world'.obstacles[j] =
                                [world.obstacles[k] EXCEPT !.x = @ - eff]
             /\ \A j \in 1..Len(world'.coins) :
                    \/ world'.coins[j].x = 12300 - eff
                    \/ \E k \in 1..Len(world.coins) :
                           world'.coins[j] = [world.coins[k] EXCEPT !.x = @ - eff]]_vars

\* C29 witness: a direct update under dash that has just raised the scroll
\* speed to 3.5 and scrolled by 6.3, after a first update that scrolled by 5.4.
C29_Witness ==
    /\ pc = "world" /\ op = "update" /\ frames = 2
    /\ player.headIndex = 3 /\ player.abilityActive
    /\ world.gameSpeed = 35 /\ world.speedIncreaseTimer = 0
    /\ world.metros[8].x = 31800 - 54 - 63
    /\ Len(world.obstacles) > 0 /\ Len(world.coins) > 0

\* C30: after every GameWorld::update the collections hold only live
\* entities: no obstacle with x + width < 0, no coin with x + size < 0 and no
\* coin the player's box overlaps (collected); and the update removes no
\* obstacle that is still at least partly on screen and no coin that is
\* still on screen and not collected.
C30_OnlyLiveEntities ==
    [][WorldUpdateStep =>
          LET eff == ScrollAmount
          IN /\ \A j \in 1..Len(world'.obstacles) :
                    world'.obstacles[j].x + world'.obstacles[j].width >= 0
             /\ \A j \in 1..Len(world'.coins) :
                    /\ world'.coins[j].x + world'.coins[j].size >= 0
                    /\ ~CoinOverlap(player', world'.coins[j])
             /\ \A k \in 1..Len(world.obstacles) :
                    LET o == [world.obstacles[k] EXCEPT !.x = @ - eff]
                    IN o.x + o.width >= 0 =>
                           \E j \in 1..Len(world'.obstacles) : world'.obstacles[j] = o
             /\ \A k \in 1..Len(world.coins) :
                    LET c == [world.coins[k] EXCEPT !.x = @ - eff]
                    IN c.x + c.size >= 0 /\ ~CoinOverlap(player', c) =>
                           \E j \in 1..Len(world'.coins) : world'.coins[j] = c]_vars

\* C30 witness: an update has left in place an obstacle whose right edge is
\* exactly at 0.
C30_Witness ==
    /\ pc = "world" /\ op = "update"
    /\ \E j \in 1..Len(world.obstacles) :
           world.obstacles[j].x + world.obstacles[j].width = 0

\* C31: at the end of every PLAYING frame (whether the run goes on or the
\* frame ended it) a player that is not airborne stands exactly on the
\* ground with no vertical speed: y = groundY and velocityY = 0.
C31_GroundedAtRest ==
    /\ pc = "handleInput" /\ op = "update"
    /\ state \in {"PLAYING", "GAME_OVER"}
    /\ ~player.isJumping
    => player.y = GetGroundY(player) /\ player.velocityY = 0

\* C31 witness: the jump of the last script has landed and the player has
\* run on the platform for at least one more frame.
C31_Witness ==
    /\ state = "PLAYING" /\ pc = "handleInput" /\ op = "update"
    /\ player.headIndex = 1 /\ runTime > 284 * 20 /\ frames >= 3
    /\ ~player.isJumping
    /\ player.y = GetGroundY(player) /\ player.velocityY = 0

\* C32: in every reachable player state, whether reached by game frames or
\* by direct calls of the Player methods, an active ability has a positive
\* cooldown, so activateAbility called while the ability is active changes
\* nothing (no re-activation, no refreshed timer), for all four variants.
C32_ActiveImpliesCooldown ==
    player.abilityActive =>
        /\ player.abilityCooldown > 0
        /\ ActivateAbility(player) = player

\* C32 witness: variant 1, whose duration equals the cooldown, half a second
\* before both run out, just after an activation call that was refused.
C32_Witness ==
    /\ player.headIndex = 1 /\ player.abilityActive
    /\ player.abilityTimer = 500 /\ player.abilityCooldown = 500
    /\ ret = [fn |-> "activateAbility", val |-> FALSE]

\* C33: in PLAYING a grounded player whose center has left every platform
\* and who has had no jump input since is never put back on a platform: it
\* stays airborne until the fall ends the run.
C33_GapFallNeverLands ==
    state = "PLAYING" /\ walkedOff => player.isJumping

\* What does hold for C33: at the initial scroll speed without dash the
\* platform after the gap arrives too late: a player that walked off and has
\* had no jump input stays airborne until the run ends.
C33_GapFallNeverLandsAtBaseSpeed ==
    /\ state = "PLAYING" /\ walkedOff
    /\ EffectiveSpeed(world.gameSpeed, player) = InitialSpeed
    => player.isJumping

\* Two platforms overlap horizontally (touching edges do not count).
MetrosOverlap(a, b) == a.x < b.x + b.width /\ b.x < a.x + a.width

\* The index of the platform that was rightmost when entry e of the
\* recycling log was made.
RightmostSeen(e) ==
    CHOOSE k \in 1..Len(e.seen) : e.seen[k].x = MaxOf(Xs(e.seen))

\* C34: no two platforms overlap horizontally, and after an update that
\* recycled a platform the gap between the right edge of the platform that
\* was rightmost before and the left edge of the recycled platform is
\* exactly 80.
C34_NoOverlapGapEighty ==
    /\ \A i, j \in 1..Len(world.metros) :
           i # j => ~MetrosOverlap(world.metros[i], world.metros[j])
    /\ op = "update" /\ Len(recycleLog) = 1 =>
           LET e == recycleLog[1]
               r == RightmostSeen(e)
           IN world.metros[e.index].x
                  - (world.metros[r].x + world.metros[r].width) = metroGap

\* What does hold for C34: the recycled platform's left edge is 350 + 80
\* right of the left edge of the previously rightmost platform, plus the
\* frame's scroll when that platform comes later in the list.
C34_RecycledLeftEdges ==
    op = "update" /\ Len(recycleLog) = 1 =>
        LET e == recycleLog[1]
            r == RightmostSeen(e)
        IN world.metros[e.index].x - world.metros[r].x =
               MetroWidth + metroGap + (IF r > e.index
                                          THEN EffectiveSpeed(world.gameSpeed, player)
                                          ELSE 0)

\* C35: every airborne period ends: in PLAYING, once isJumping is true,
\* after finitely many frames the player has landed or the run is over,
\* also with the jump key held and with a variant-1 double jump.
C35_AirborneEnds ==
    (state = "PLAYING" /\ player.isJumping)
        ~> (~player.isJumping \/ state = "GAME_OVER")

\* C35 witness: the double-jump variant has just landed after an airborne
\* period of more than 55 frames, which a single jump does not last: the
\* second impulse was used.
C35_Witness ==
    /\ state = "PLAYING" /\ pc = "handleInput" /\ op = "update"
    /\ player.headIndex = 1 /\ ~player.isJumping
    /\ frames > 60 /\ ~walkedOff

\* C36: the character variant is fixed for a run.  player.headIndex changes
\* only in a commit (CHARACTER_SELECT to PLAYING), which sets it to the
\* selection; selectedChar changes only in a handleInput of CHARACTER_SELECT
\* (left / right presses in the other states have no effect); so during the
\* run and on the game-over screen headIndex equals selectedChar.
C36_VariantFixedForRun ==
    [][LET commit == state = "CHARACTER_SELECT" /\ state' = "PLAYING"
       IN /\ selectedChar' # selectedChar =>
                 state = "CHARACTER_SELECT" /\ pc = "handleInput"
          /\ player'.headIndex # player.headIndex => commit
          /\ commit => player'.headIndex = selectedChar'
          /\ state' \in {"PLAYING", "GAME_OVER"} =>
                 player'.headIndex = selectedChar']_vars

\* C36 witness: two frames into a run committed with variant 3, chosen by a
\* left press from the default variant 0.
C36_Witness ==
    /\ state = "PLAYING" /\ op = "update" /\ frames = 2 /\ runTime = 40
    /\ selectedChar = 3 /\ player.headIndex = 3

\* C37: every GameWorld::update spawns at most one obstacle and at most one
\* coin, however large its delta-time: one obstacle exactly when the obstacle
\* timer plus the delta-time exceeds 2.0 s and one coin exactly when the coin
\* timer plus the delta-time exceeds 1.5 s; the timer then restarts from 0
\* (the excess is dropped) and otherwise keeps the sum.  The obstacle is
\* created at x = screen width + 50 and the coin at x = screen width + 30,
\* at the tail of its collection, and scrolled with the others in the same
\* update.
C37_OneSpawnPerUpdate ==
    [][WorldUpdateStep =>
          LET dt  == lastDeltaTime'
              eff == ScrollAmount
              t2  == world.obstacleTimer + dt
              t3  == world.coinTimer + dt
              keptObs  == {k \in 1..Len(world.obstacles) :
                              world.obstacles[k].x - eff + world.obstacles[k].width >= 0}
              keptCoin == {k \in 1..Len(world.coins) :
                              LET c == [world.coins[k] EXCEPT !.x = @ - eff]
                              IN c.x + c.size >= 0 /\ ~CoinOverlap(player', c)}
              newObs   == Len(world'.obstacles) - Cardinality(keptObs)
              newCoin  == Len(world'.coins) - Cardinality(keptCoin)
          IN /\ newObs = IF t2 > 2000 THEN 1 ELSE 0
             /\ world'.obstacleTimer = IF t2 > 2000 THEN 0 ELSE t2
             /\ newObs = 1 =>
                    world'.obstacles[Len(world'.obstacles)].x = 12000 + 500 - eff
             /\ newCoin = IF t3 > 1500 THEN 1 ELSE 0
             /\ world'.coinTimer = IF t3 > 1500 THEN 0 ELSE t3
             /\ newCoin = 1 =>
                    world'.coins[Len(world'.coins)].x = 12000 + 300 - eff]_vars

\* C37 witness: the timers have reached 2.0 s and 1.5 s exactly without a
\* spawn, the next update of 20 ms has spawned one obstacle and one coin, and
\* an update of 7 s has then spawned exactly one more of each.
C37_Witness ==
    /\ pc = "world" /\ op = "update" /\ frames = 3 /\ runTime = 20 + 20 + 7000
    /\ lastDeltaTime = 7000
    /\ Len(world.obstacles) = 2 /\ Len(world.coins) = 2
    /\ world.obstacleTimer = 0 /\ world.coinTimer = 0

RECURSIVE SumSeq(_)
SumSeq(q) == IF q = <<>> THEN 0 ELSE Head(q) + SumSeq(Tail(q))

\* C38: over any number of runs the persisted bestScore never decreases and
\* is at least the coin tally of every finished run (and at least its loaded
\* value), and totalCoins equals its loaded value plus the sum of the tallies
\* of all finished runs.
C38_RecordOverRuns ==
    /\ [](/\ data.bestScore >= ledger.loaded.bestScore
          /\ \A k \in 1..Len(ledger.tallies) : data.bestScore >= ledger.tallies[k]
          /\ data.totalCoins = ledger.loaded.totalCoins + SumSeq(ledger.tallies))
    /\ [][data'.bestScore >= data.bestScore]_vars

\* C38 witness: three runs finished on a loaded record of best 5 and 7 coins:
\* tallies 1, 6 (a new best) and 3; the record is best 6 and 17 coins.
C38_Witness ==
    /\ ledger = [loaded |-> [bestScore |-> 5, totalCoins |-> 7],
                 tallies |-> <<1, 6, 3>>]
    /\ data = [bestScore |-> 6, totalCoins |-> 17]

\* C39: with the two programs run on the same keys, delta-times and rand()
\* outcomes, after every frame both are in the same session state with the
\* same player, platforms, obstacles, coins, scroll speed, timers and coin
\* tally, and the same persisted record.
C39_SameAfterEveryFrame ==
    (mono.on /\ pc = "handleInput" /\ op # "main") =>
        /\ state = mono.state
        /\ player = mono.player
        /\ world = mono.world
        /\ data = mono.data

====
